---- MODULE Spec2Model ----
(***************************************************************************)
(* Work-item lifecycle engine of the knowledge-vault scripts:              *)
(*   queue-manager.js       WorkQueueManager   (work-queue.json)           *)
(*   processing-manifest    ProcessingManifest (processing-manifest.json)  *)
(*   completion-log.js      CompletionLog      (completion-log.json)       *)
(*   main-processor.js      MainProcessor      (dispatch, stage pipeline)  *)
(*   recovery-processor     RecoveryProcessor  (recovery-state.json)       *)
(* Every persisted document is a variable; an async call is a sequence of  *)
(* steps, one per stretch of code between two awaits.                      *)
(***************************************************************************)
EXTENDS Integers, Sequences, FiniteSets, TLC

VARIABLES
    clock,      \* Date.now(): the millisecond, counted from the first one
    admitted,   \* number of items ever pushed by addToQueue (object identity)
    files,      \* the vault's files: path -> content hash
    queue,      \* work-queue.json: queue
    manifest,   \* processing-manifest.json: current_processing
    log,        \* completion-log.json: completed
    rstate,     \* recovery-state.json
    run,        \* the sequential command in progress (process-next, retry-failed, recover)
    calls,      \* what the current executeAgentPipeline call has done so far (observation)
    tasks,      \* overlapping async calls on the queue (watcher adds, concurrent dispatch)
    ck          \* input and result of a findLastCheckpoint call

vars == <<clock, admitted, files, queue, manifest, log, rstate, run, calls, tasks, ck>>

----------------------------------------------------------------------------
(* Bounds of the model *)

MaxAdds == 3         \* items admitted to the queue over a behaviour
MaxClock == 1        \* latest millisecond at which an item is admitted
MaxTasks == 3        \* overlapping calls on the queue document
MaxStages == 4       \* stages of a pipeline handed to findLastCheckpoint
MaxFailures == 5     \* collaborator failures within one executeAgentPipeline call
RetryCap == 4        \* retry-failed is not run again on a record with this many retries

(* Program constants *)

maxRetries == 3
recoveryMaxRetries == 3

Undefined == 0 - 1      \* a field the object does not have

----------------------------------------------------------------------------
(* Paths and provenance *)

InboxA == "00_Inbox/a.md"
TestRecovery == "00_Inbox/test-recovery.md"
NoteB == "notes/b.md"

Paths == {InboxA, TestRecovery, NoteB}
Sources == {"git-commit", "web-clipper", "unknown"}

\* filePath.includes('00_Inbox')
InInbox(filePath) == filePath \in {InboxA, TestRecovery}

detectType(filePath, source) ==
    IF source = "git-commit" THEN "git-commit"
    ELSE IF source = "web-clipper" THEN "web-clip"
    ELSE IF InInbox(filePath) THEN "inbox-file"
    ELSE "unknown"

calculatePriority(filePath, source) ==
    IF source = "git-commit" THEN 1
    ELSE IF source = "web-clipper" THEN 2
    ELSE IF InInbox(filePath) THEN 3
    ELSE 4

determineAgents(filePath, source) ==
    CASE detectType(filePath, source) = "git-commit" ->
            <<"normalization", "keyword-extraction", "linking", "tagging", "filing">>
      [] detectType(filePath, source) = "web-clip" ->
            <<"normalization", "keyword-extraction", "linking", "filing">>
      [] detectType(filePath, source) = "inbox-file" ->
            <<"normalization", "keyword-extraction", "linking", "filing">>
      [] OTHER -> <<"normalization", "filing">>

----------------------------------------------------------------------------
(* Sequence helpers *)

Range(s) == {s[i] : i \in 1..Len(s)}

\* Array.prototype.splice(index, 1) on a 1-based index
RemoveAt(s, i) == SubSeq(s, 1, i - 1) \o SubSeq(s, i + 1, Len(s))

\* Array.prototype.slice(start) with a 0-based start; slice(undefined) is slice(0)
Slice(s, start) ==
    IF start = Undefined THEN s ELSE SubSeq(s, start + 1, Len(s))

----------------------------------------------------------------------------
(* WorkQueueManager *)

\* Insertion of x into a list sorted by priority, after every element that
\* does not compare greater: what a stable sort does with each element.
RECURSIVE InsertByPriority(_, _)
InsertByPriority(sorted, x) ==
    IF sorted = <<>> THEN <<x>>
    ELSE IF Head(sorted).priority - x.priority <= 0
         THEN <<Head(sorted)>> \o InsertByPriority(Tail(sorted), x)
         ELSE <<x>> \o sorted

\* queue.queue.sort((a, b) => a.priority - b.priority): Array.prototype.sort is stable
RECURSIVE SortByPriority(_)
SortByPriority(q) ==
    IF q = <<>> THEN <<>>
    ELSE InsertByPriority(SortByPriority(SubSeq(q, 1, Len(q) - 1)), q[Len(q)])

Null == [uid |-> 0, id |-> Undefined, type |-> "null", priority |-> 0, created_at |-> Undefined,
         path |-> "null", hash |-> "null", source |-> "null", required_agents |-> <<>>]

\* getNext on a loaded queue document
getNext(q) == IF Len(q) = 0 THEN Null ELSE SortByPriority(q)[1]

\* the item addToQueue builds
NewItem(filePath, source, now, uid, hash) ==
    [uid |-> uid,
     id |-> now,
     type |-> detectType(filePath, source),
     priority |-> calculatePriority(filePath, source),
     created_at |-> now,
     path |-> filePath,
     hash |-> hash,
     source |-> source,
     required_agents |-> determineAgents(filePath, source)]

\* a check that takes an item for the file only when its content is the same
AlreadyQueuedSameContent(q, filePath) ==
    \E i \in 1..Len(q) : q[i].path = filePath /\ q[i].hash = files[filePath]

\* queue.queue.some(item => item.file.path === filePath)
AlreadyQueued(q, filePath) == \E i \in 1..Len(q) : q[i].path = filePath

\* queue.queue.findIndex(item => item.id === workItemId)
\* (1-based; 0 when no item has that id)
IndexOfId(q, workItemId) ==
    IF \E i \in 1..Len(q) : q[i].id = workItemId
    THEN CHOOSE i \in 1..Len(q) :
            q[i].id = workItemId /\ \A j \in 1..(i - 1) : q[j].id # workItemId
    ELSE 0

----------------------------------------------------------------------------
(* ProcessingManifest *)

\* the record manifest.add builds; its stages mirror workItem.required_agents
NewProcessing(workItem) ==
    [uid |-> workItem.uid,
     work_id |-> workItem.id,
     file_path |-> workItem.path,
     agent_pipeline |-> [i \in 1..Len(workItem.required_agents) |->
                            [name |-> workItem.required_agents[i], status |-> "pending"]],
     errors |-> 0,
     retries |-> 0,
     retry_count |-> Undefined]

\* manifest.current_processing.find(p => p.work_id === workId), as a 1-based index
ProcessingIndex(m, workId) ==
    IF \E i \in 1..Len(m) : m[i].work_id = workId
    THEN CHOOSE i \in 1..Len(m) :
            m[i].work_id = workId /\ \A j \in 1..(i - 1) : m[j].work_id # workId
    ELSE 0

\* processing.agent_pipeline.find(a => a.name === agentName), as a 1-based index
AgentIndex(pipeline, agentName) ==
    IF \E i \in 1..Len(pipeline) : pipeline[i].name = agentName
    THEN CHOOSE i \in 1..Len(pipeline) :
            pipeline[i].name = agentName /\ \A j \in 1..(i - 1) : pipeline[j].name # agentName
    ELSE 0

\* updateAgent throws: no such record, no such agent, or errors.push on a
\* record that has no errors array
updateAgentThrows(m, workId, agentName, status) ==
    \/ ProcessingIndex(m, workId) = 0
    \/ AgentIndex(m[ProcessingIndex(m, workId)].agent_pipeline, agentName) = 0
    \/ status = "failed" /\ m[ProcessingIndex(m, workId)].errors = Undefined

\* the document updateAgent saves when it does not throw
updateAgent(m, workId, agentName, status) ==
    LET p == ProcessingIndex(m, workId)
        a == AgentIndex(m[p].agent_pipeline, agentName)
    IN [m EXCEPT ![p].agent_pipeline[a].status = status,
                 ![p].errors = IF status = "failed" THEN @ + 1 ELSE @]

\* the document incrementRetry saves: processing.retries = (processing.retries || 0) + 1
incrementRetry(m, workId) ==
    LET p == ProcessingIndex(m, workId)
    IN [m EXCEPT ![p].retries = (IF @ = Undefined THEN 0 ELSE @) + 1]

\* manifest.remove / the splice of manifest.complete
removeProcessing(m, workId) ==
    IF ProcessingIndex(m, workId) = 0 THEN m ELSE RemoveAt(m, ProcessingIndex(m, workId))

----------------------------------------------------------------------------
(* CompletionLog *)

\* the record completionLog.add pushes (its identity, path and stage outcomes)
CompletedRecord(processingRecord) ==
    [uid |-> processingRecord.uid,
     work_id |-> processingRecord.work_id,
     file_path |-> processingRecord.file_path,
     agents_executed |-> processingRecord.agent_pipeline]

----------------------------------------------------------------------------
(* RecoveryProcessor: detection and checkpoint *)

hasFailedAgent(item) ==
    \E i \in 1..Len(item.agent_pipeline) : item.agent_pipeline[i].status = "failed"

\* item.retry_count >= maxRetries; undefined >= 3 is false
hasExceededRetries(item) ==
    item.retry_count # Undefined /\ item.retry_count >= recoveryMaxRetries

\* detectFailedTasks: allProcessing.filter(...), every record being within maxFailureAge
RECURSIVE detectFailedTasks(_)
detectFailedTasks(m) ==
    IF m = <<>> THEN <<>>
    ELSE IF hasFailedAgent(Head(m)) \/ hasExceededRetries(Head(m))
         THEN <<Head(m)>> \o detectFailedTasks(Tail(m))
         ELSE detectFailedTasks(Tail(m))

\* task.agent_pipeline.filter(a => a.status === 'completed')
RECURSIVE completedAgents(_)
completedAgents(pipeline) ==
    IF pipeline = <<>> THEN <<>>
    ELSE IF Head(pipeline).status = "completed"
         THEN <<Head(pipeline)>> \o completedAgents(Tail(pipeline))
         ELSE completedAgents(Tail(pipeline))

\* findLastCheckpoint(task); resumeFromIndex is 0-based, and absent from the
\* object returned when no agent is completed
findLastCheckpoint(pipeline) ==
    LET done == completedAgents(pipeline) IN
    IF Len(done) = 0
    THEN [checkpoint |-> "start",
          resumeFromAgent |-> IF Len(pipeline) > 0 THEN pipeline[1].name ELSE "null",
          resumeFromIndex |-> Undefined]
    ELSE LET lastCompleted == done[Len(done)]
             lastCompletedIndex == AgentIndex(pipeline, lastCompleted.name) - 1
         IN [checkpoint |-> lastCompleted.name,
             resumeFromAgent |-> IF lastCompletedIndex + 2 <= Len(pipeline)
                                 THEN pipeline[lastCompletedIndex + 2].name ELSE "null",
             resumeFromIndex |-> lastCompletedIndex + 1]

----------------------------------------------------------------------------
(* State of the sequential command *)

NoTask == [uid |-> 0, work_id |-> Undefined, file_path |-> "null", agent_pipeline |-> <<>>,
           errors |-> 0, retries |-> 0, retry_count |-> Undefined]

NoCheckpoint == [checkpoint |-> "null", resumeFromAgent |-> "null", resumeFromIndex |-> Undefined]

NoResult == [status |-> "none", work_id |-> Undefined]

Idle ==
    [op |-> "idle",            \* the command: processNext, retryFailed, recoverAll
     pc |-> "idle",            \* where it stands
     nextWork |-> Null,        \* processNext: what getNext returned
     item |-> Null,            \* the work item executeAgentPipeline runs
     ai |-> 0,                 \* position in item.required_agents (1-based)
     retries |-> 0,            \* executeAgentPipeline's local retries
     outcome |-> "none",       \* what the collaborator's attempt gave
     todo |-> <<>>,            \* retryFailed / recoverAll: the snapshots still to handle
     task |-> NoTask,          \* the snapshot being retried, or the record complete() returned
     ckpt |-> NoCheckpoint,    \* retryTask: findLastCheckpoint(task)
     retryCount |-> 0,         \* retryTask: what incrementRetryCount returned
     result |-> NoResult]      \* what the last processNext / retryTask call returned

Returned(status, workId) ==
    [Idle EXCEPT !.pc = "returned", !.result = [status |-> status, work_id |-> workId]]

AtRest == run.pc = "idle"

\* Date.now() at a later call: the same millisecond, or the next one
Now == {now \in {clock, clock + 1} : now <= MaxClock}

\* some item, record or counter still carries the id wq-<c>
IdInUse(c) ==
    \/ \E i \in 1..Len(queue) : queue[i].id = c
    \/ \E i \in 1..Len(manifest) : manifest[i].work_id = c
    \/ \E i \in 1..Len(log) : log[i].work_id = c
    \/ c \in DOMAIN rstate.retries
    \/ \E i \in 1..Len(rstate.permanentFailures) : rstate.permanentFailures[i] = c
    \/ run.nextWork.id = c \/ run.item.id = c \/ run.task.work_id = c
    \/ \E i \in 1..Len(run.todo) : run.todo[i].work_id = c

\* Date.now() after await new Promise(resolve => setTimeout(resolve, delay)):
\* a later millisecond (which one matters only when the present one was given
\* out as an id)
AfterWait == IF IdInUse(clock) THEN clock + 1 ELSE clock

EmptyRecoveryState ==
    [retries |-> <<>>, lastRetry |-> <<>>, permanentFailures |-> <<>>]

\* executeAgentPipeline has done nothing yet
NoCalls ==
    [started |-> <<>>,      \* stages marked 'in-progress', in order
     invoked |-> 0,         \* agent.execute calls for the stage started last
     completed |-> <<>>,    \* stages marked 'completed', in order
     failed |-> <<>>,       \* stages marked 'failed'
     failures |-> 0]        \* collaborator failures so far

NoCk == [pipeline |-> <<>>, result |-> NoCheckpoint, done |-> FALSE]

Init ==
    /\ clock = 0
    /\ admitted = 0
    /\ files = [p \in Paths |-> "h0"]
    /\ queue = <<>>
    /\ manifest = <<>>
    /\ log = <<>>
    /\ rstate = EmptyRecoveryState
    /\ run = Idle
    /\ calls = NoCalls
    /\ tasks = <<>>
    /\ ck = NoCk

----------------------------------------------------------------------------
(* WorkQueueManager.addToQueue, awaited by its caller (add-test-files.js,    *)
(* FileWatcher.handleNewFile): no other call runs in between.                *)

\* the queue document addToQueue leaves, fs being the vault's files
addToQueue(q, fs, filePath, source, now, uid) ==
    IF AlreadyQueued(q, filePath) THEN q
    ELSE IF filePath \notin DOMAIN fs THEN q
    ELSE Append(q, NewItem(filePath, source, now, uid, fs[filePath]))

AddToQueue(filePath, source, now) ==
    /\ AtRest
    /\ admitted < MaxAdds
    /\ queue' = addToQueue(queue, files, filePath, source, now, admitted + 1)
    /\ queue' # queue
    /\ admitted' = admitted + 1
    /\ clock' = now
    /\ UNCHANGED <<files, manifest, log, rstate, run, calls, tasks, ck>>

\* the caller has the result of its command; the next command starts afresh
Exit ==
    /\ run.pc = "returned"
    /\ run' = Idle
    /\ calls' = NoCalls
    /\ UNCHANGED <<clock, admitted, files, queue, manifest, log, rstate, tasks, ck>>

----------------------------------------------------------------------------
(* MainProcessor.processNext: dispatch *)

\* const nextWork = await this.queueManager.getNext()
PN_GetNext ==
    /\ AtRest
    /\ run' = IF getNext(queue) = Null
              THEN Returned("idle", Undefined)
              ELSE [Idle EXCEPT !.op = "processNext", !.pc = "pn_start",
                                !.nextWork = getNext(queue)]
    /\ calls' = NoCalls
    /\ UNCHANGED <<clock, admitted, files, queue, manifest, log, rstate, tasks, ck>>

\* a startProcessing that takes nothing out of the queue
startProcessingKeeping(q, workItemId) == q

\* a splice that cuts the queue off at the item
startProcessingCutOff(q, workItemId) == SubSeq(q, 1, IndexOfId(q, workItemId) - 1)

\* the queue document startProcessing saves
startProcessing(q, workItemId) == RemoveAt(q, IndexOfId(q, workItemId))

\* const workItem = await this.queueManager.startProcessing(nextWork.id)
PN_StartProcessing ==
    /\ run.op = "processNext" /\ run.pc = "pn_start"
    /\ IF IndexOfId(queue, run.nextWork.id) = 0
       THEN /\ run' = Returned("threw", run.nextWork.id)
            /\ UNCHANGED queue
       ELSE /\ queue' = startProcessing(queue, run.nextWork.id)
            /\ run' = [run EXCEPT !.pc = "pn_add",
                                  !.item = queue[IndexOfId(queue, run.nextWork.id)]]
    /\ UNCHANGED <<clock, admitted, files, manifest, log, rstate, calls, tasks, ck>>

\* await this.manifest.add(workItem); then executeAgentPipeline(workItem) begins
PN_ManifestAdd ==
    /\ run.op = "processNext" /\ run.pc = "pn_add"
    /\ manifest' = Append(manifest, NewProcessing(run.item))
    /\ run' = [run EXCEPT !.pc = "stage", !.ai = 1]
    /\ UNCHANGED <<clock, admitted, files, queue, log, rstate, calls, tasks, ck>>

----------------------------------------------------------------------------
(* MainProcessor.executeAgentPipeline(workItem), for every caller *)

AgentName == run.item.required_agents[run.ai]

\* where the caller goes on when executeAgentPipeline returns
AfterPipeline ==
    CASE run.op = "processNext" -> "pn_final"
      [] run.op = "retryFailed" -> "rf_item"
      [] OTHER -> "rt_recovered"

\* where the caller goes on when executeAgentPipeline throws
AfterPipelineThrew ==
    CASE run.op = "processNext" -> "pn_catch"
      [] run.op = "retryFailed" -> "rf_item"
      [] OTHER -> "rt_catch"

\* await this.manifest.updateAgent(workItem.id, agentName, 'in-progress'); retries = 0
EX_StartStage ==
    /\ run.pc = "stage"
    /\ IF updateAgentThrows(manifest, run.item.id, AgentName, "in-progress")
       THEN /\ run' = [run EXCEPT !.pc = AfterPipelineThrew]
            /\ UNCHANGED <<manifest, calls>>
       ELSE /\ manifest' = updateAgent(manifest, run.item.id, AgentName, "in-progress")
            /\ run' = [run EXCEPT !.pc = "invoke", !.retries = 0]
            /\ calls' = [calls EXCEPT !.started = Append(@, AgentName), !.invoked = 0]
    /\ UNCHANGED <<clock, admitted, files, queue, log, rstate, tasks, ck>>

\* BaseAgent.loadDocumentState throws when the file is not there
loadDocumentStateThrows(filePath) == filePath \notin DOMAIN files

\* FilingAgent.process: a document in the inbox is moved to its destination folder
FiledAway(agentName, filePath, outcome) ==
    agentName = "filing" /\ outcome = "completed" /\ InInbox(filePath)

\* loadAgent, loadDocumentState, await agent.execute(documentState)
EX_Invoke(outcome) ==
    /\ run.pc = "invoke"
    /\ IF loadDocumentStateThrows(run.item.path)
       THEN /\ outcome = "failed"
            /\ run' = [run EXCEPT !.pc = "settle", !.outcome = "threw"]
            /\ UNCHANGED <<files, calls>>
       ELSE /\ outcome = "failed" => calls.failures < MaxFailures
            /\ run' = [run EXCEPT !.pc = "settle", !.outcome = outcome]
            /\ calls' = [calls EXCEPT !.invoked = @ + 1,
                                      !.failures = IF outcome = "failed" THEN @ + 1 ELSE @]
            /\ files' = IF FiledAway(AgentName, run.item.path, outcome)
                        THEN [p \in DOMAIN files \ {run.item.path} |-> files[p]]
                        ELSE files
    /\ UNCHANGED <<clock, admitted, queue, manifest, log, rstate, tasks, ck>>

\* the try block's updateAgent(..., 'completed', result) went through
StageSucceeds ==
    /\ run.outcome = "completed"
    /\ ~updateAgentThrows(manifest, run.item.id, AgentName, "completed")

\* result.status === 'completed': mark the stage and go on to the next one
EX_Completed ==
    /\ run.pc = "settle"
    /\ StageSucceeds
    /\ manifest' = updateAgent(manifest, run.item.id, AgentName, "completed")
    /\ calls' = [calls EXCEPT !.completed = Append(@, AgentName)]
    /\ run' = IF run.ai < Len(run.item.required_agents)
              THEN [run EXCEPT !.pc = "stage", !.ai = @ + 1, !.outcome = "none"]
              ELSE [run EXCEPT !.pc = AfterPipeline, !.outcome = "none"]
    /\ UNCHANGED <<clock, admitted, files, queue, log, rstate, tasks, ck>>

\* a loop that lets the stage run once more than the code's
MayRetryOnceMore(retries) == retries <= maxRetries + 1

\* while (retries <= this.maxRetries && !success): may the catch block retry?
MayRetry(retries) == retries <= maxRetries

\* catch: retries++; incrementRetry and wait, then the loop runs the stage again
EX_Retry ==
    /\ run.pc = "settle"
    /\ ~StageSucceeds
    /\ MayRetry(run.retries + 1)
    /\ IF ProcessingIndex(manifest, run.item.id) = 0
       THEN /\ run' = [run EXCEPT !.pc = AfterPipelineThrew, !.outcome = "none"]
            /\ UNCHANGED manifest
       ELSE /\ manifest' = incrementRetry(manifest, run.item.id)
            /\ run' = [run EXCEPT !.pc = "invoke", !.retries = @ + 1, !.outcome = "none"]
    /\ clock' = IF ProcessingIndex(manifest, run.item.id) = 0 THEN clock ELSE AfterWait
    /\ UNCHANGED <<admitted, files, queue, log, rstate, calls, tasks, ck>>

\* catch: retries spent; updateAgent(..., 'failed', ...) and throw
EX_Failed ==
    /\ run.pc = "settle"
    /\ ~StageSucceeds
    /\ ~MayRetry(run.retries + 1)
    /\ IF updateAgentThrows(manifest, run.item.id, AgentName, "failed")
       THEN UNCHANGED <<manifest, calls>>
       ELSE /\ manifest' = updateAgent(manifest, run.item.id, AgentName, "failed")
            /\ calls' = [calls EXCEPT !.failed = Append(@, AgentName)]
    /\ run' = [run EXCEPT !.pc = AfterPipelineThrew, !.retries = @ + 1, !.outcome = "none"]
    /\ UNCHANGED <<clock, admitted, files, queue, log, rstate, tasks, ck>>

----------------------------------------------------------------------------
(* MainProcessor.processNext: completion and failure *)

\* loadDocumentState(workItem.file.path), then await this.manifest.complete(workItem.id, ...)
PN_Complete ==
    /\ run.op = "processNext" /\ run.pc = "pn_final"
    /\ IF loadDocumentStateThrows(run.item.path) \/ ProcessingIndex(manifest, run.item.id) = 0
       THEN /\ run' = [run EXCEPT !.pc = "pn_catch"]
            /\ UNCHANGED manifest
       ELSE /\ manifest' = removeProcessing(manifest, run.item.id)
            /\ run' = [run EXCEPT !.pc = "pn_log",
                                  !.task = manifest[ProcessingIndex(manifest, run.item.id)]]
    /\ UNCHANGED <<clock, admitted, files, queue, log, rstate, calls, tasks, ck>>

\* await this.completionLog.add(processingRecord, ...); return 'completed'
PN_Log ==
    /\ run.op = "processNext" /\ run.pc = "pn_log"
    /\ log' = Append(log, CompletedRecord(run.task))
    /\ run' = [Returned("completed", run.item.id) EXCEPT !.op = "processNext", !.item = run.item]
    /\ UNCHANGED <<clock, admitted, files, queue, manifest, rstate, calls, tasks, ck>>

\* what processNext's catch block leaves of the manifest
afterFailure(m, workId) == removeProcessing(m, workId)

\* catch (error): await this.manifest.remove(workItem.id); return 'failed'
PN_Catch ==
    /\ run.op = "processNext" /\ run.pc = "pn_catch"
    /\ manifest' = afterFailure(manifest, run.item.id)
    /\ run' = [Returned("failed", run.item.id) EXCEPT !.op = "processNext", !.item = run.item]
    /\ UNCHANGED <<clock, admitted, files, queue, log, rstate, calls, tasks, ck>>

----------------------------------------------------------------------------
(* MainProcessor.retryFailed *)

\* processingItems.filter(item => item.agent_pipeline.some(a => a.status === 'failed'))
RECURSIVE failedItems(_)
failedItems(m) ==
    IF m = <<>> THEN <<>>
    ELSE IF hasFailedAgent(Head(m)) THEN <<Head(m)>> \o failedItems(Tail(m))
    ELSE failedItems(Tail(m))

\* item.agent_pipeline.indexOf(item.agent_pipeline.find(a => a.status === 'failed')), 0-based
firstFailedIndex(pipeline) ==
    (CHOOSE i \in 1..Len(pipeline) :
        pipeline[i].status = "failed" /\ \A j \in 1..(i - 1) : pipeline[j].status # "failed") - 1

\* { id: item.work_id, file: { path: item.file_path }, required_agents: remainingAgents }
retryWorkItem(task, fromIndex) ==
    [Null EXCEPT !.uid = task.uid,
                 !.id = task.work_id,
                 !.path = task.file_path,
                 !.required_agents =
                     [i \in 1..Len(Slice(task.agent_pipeline, fromIndex)) |->
                         Slice(task.agent_pipeline, fromIndex)[i].name]]

\* const processingItems = await this.manifest.getAll(); const failedItems = ...
RF_Begin ==
    /\ AtRest
    /\ \A i \in 1..Len(manifest) : manifest[i].retries < RetryCap
    /\ run' = IF failedItems(manifest) = <<>>
              THEN Returned("idle", Undefined)
              ELSE [Idle EXCEPT !.op = "retryFailed", !.pc = "rf_item",
                                !.todo = failedItems(manifest)]
    /\ UNCHANGED <<clock, admitted, files, queue, manifest, log, rstate, calls, tasks, ck>>

\* for (const item of failedItems): reset the first failed agent, run the rest
RF_Item ==
    /\ run.op = "retryFailed" /\ run.pc = "rf_item"
    /\ IF run.todo = <<>>
       THEN /\ run' = Returned("done", Undefined)
            /\ calls' = NoCalls
            /\ UNCHANGED manifest
       ELSE LET item == Head(run.todo)
                from == firstFailedIndex(item.agent_pipeline)
                name == item.agent_pipeline[from + 1].name
            IN IF updateAgentThrows(manifest, item.work_id, name, "pending")
               THEN /\ run' = Returned("threw", item.work_id)
                    /\ UNCHANGED <<manifest, calls>>
               ELSE /\ manifest' = updateAgent(manifest, item.work_id, name, "pending")
                    /\ run' = [run EXCEPT !.todo = Tail(@), !.task = item,
                                          !.item = retryWorkItem(item, from),
                                          !.pc = "stage", !.ai = 1]
                    /\ calls' = NoCalls
    /\ UNCHANGED <<clock, admitted, files, queue, log, rstate, tasks, ck>>

----------------------------------------------------------------------------
(* RecoveryProcessor.recoverAll and retryTask *)

\* state.retries[workId] || 0
getRetryCount(state, workId) ==
    IF workId \in DOMAIN state.retries THEN state.retries[workId] ELSE 0

\* a threshold check that lets a counter at maxRetries through
hasExceededRetryLimitStrictly(state, workId) ==
    getRetryCount(state, workId) > recoveryMaxRetries

\* return retryCount >= this.options.maxRetries
hasExceededRetryLimit(state, workId) ==
    getRetryCount(state, workId) >= recoveryMaxRetries

\* the state document incrementRetryCount saves
incrementRetryCount(state, workId, now) ==
    [state EXCEPT
        !.retries = [w \in DOMAIN state.retries \cup {workId} |->
                        IF w = workId THEN getRetryCount(state, workId) + 1
                        ELSE state.retries[w]],
        !.lastRetry = [w \in DOMAIN state.lastRetry \cup {workId} |->
                        IF w = workId THEN now ELSE state.lastRetry[w]]]

\* a quarantine that pushes the id without looking for it in the list
markPermanentFailureUnchecked(state, workId) ==
    [state EXCEPT !.permanentFailures = Append(@, workId)]

\* the state document markPermanentFailure leaves
markPermanentFailure(state, workId) ==
    IF workId \in Range(state.permanentFailures) THEN state
    ELSE [state EXCEPT !.permanentFailures = Append(@, workId)]

\* "Reset failed agents to pending": does one of the updateAgent calls throw?
RECURSIVE resetThrows(_, _, _)
resetThrows(m, workId, stages) ==
    IF stages = <<>> THEN FALSE
    ELSE IF Head(stages).status # "failed" THEN resetThrows(m, workId, Tail(stages))
    ELSE IF updateAgentThrows(m, workId, Head(stages).name, "pending") THEN TRUE
    ELSE resetThrows(updateAgent(m, workId, Head(stages).name, "pending"), workId, Tail(stages))

\* "Reset failed agents to pending": the manifest after the calls that went through
RECURSIVE resetFailed(_, _, _)
resetFailed(m, workId, stages) ==
    IF stages = <<>> THEN m
    ELSE IF Head(stages).status # "failed" THEN resetFailed(m, workId, Tail(stages))
    ELSE IF updateAgentThrows(m, workId, Head(stages).name, "pending") THEN m
    ELSE resetFailed(updateAgent(m, workId, Head(stages).name, "pending"), workId, Tail(stages))

\* const failedTasks = await this.detectFailedTasks()
RA_Detect ==
    /\ AtRest
    /\ run' = IF detectFailedTasks(manifest) = <<>>
              THEN Returned("idle", Undefined)
              ELSE [Idle EXCEPT !.op = "recoverAll", !.pc = "rt_check",
                                !.todo = detectFailedTasks(manifest)]
    /\ UNCHANGED <<clock, admitted, files, queue, manifest, log, rstate, calls, tasks, ck>>

\* retryTask(task) up to the wait: threshold check, checkpoint, incrementRetryCount
RT_Check ==
    /\ run.op = "recoverAll" /\ run.pc = "rt_check"
    /\ IF run.todo = <<>>
       THEN /\ run' = [Idle EXCEPT !.pc = "returned", !.result = run.result]
            /\ UNCHANGED rstate
       ELSE LET task == Head(run.todo)
                ckpt == findLastCheckpoint(task.agent_pipeline)
            IN IF hasExceededRetryLimit(rstate, task.work_id)
               THEN /\ run' = [run EXCEPT !.todo = Tail(@), !.task = task, !.pc = "rt_mark"]
                    /\ UNCHANGED rstate
               ELSE IF ckpt.resumeFromAgent = "null"
               THEN /\ run' = [run EXCEPT !.todo = Tail(@), !.task = task,
                                          !.result = [status |-> "skipped",
                                                      work_id |-> task.work_id]]
                    /\ UNCHANGED rstate
               ELSE /\ rstate' = incrementRetryCount(rstate, task.work_id, clock)
                    /\ run' = [run EXCEPT !.todo = Tail(@), !.task = task, !.ckpt = ckpt,
                                          !.retryCount = getRetryCount(rstate, task.work_id) + 1,
                                          !.pc = "rt_reset"]
    /\ clock' = IF /\ run.todo # <<>>
                   /\ ~hasExceededRetryLimit(rstate, Head(run.todo).work_id)
                   /\ findLastCheckpoint(Head(run.todo).agent_pipeline).resumeFromAgent # "null"
                THEN AfterWait ELSE clock
    /\ calls' = NoCalls
    /\ UNCHANGED <<admitted, files, queue, manifest, log, tasks, ck>>

\* after the wait: remainingAgents, the reset of failed agents, then the pipeline
RT_Reset ==
    /\ run.op = "recoverAll" /\ run.pc = "rt_reset"
    /\ LET remaining == Slice(run.task.agent_pipeline, run.ckpt.resumeFromIndex)
       IN /\ manifest' = resetFailed(manifest, run.task.work_id, remaining)
          /\ run' = IF resetThrows(manifest, run.task.work_id, remaining)
                    THEN Returned("threw", run.task.work_id)
                    ELSE [run EXCEPT !.item = retryWorkItem(run.task, run.ckpt.resumeFromIndex),
                                     !.pc = "stage", !.ai = 1]
    /\ UNCHANGED <<clock, admitted, files, queue, log, rstate, calls, tasks, ck>>

\* executeAgentPipeline returned: return { status: 'recovered', ... }
RT_Recovered ==
    /\ run.op = "recoverAll" /\ run.pc = "rt_recovered"
    /\ run' = [run EXCEPT !.pc = "rt_check",
                          !.result = [status |-> "recovered", work_id |-> run.task.work_id]]
    /\ UNCHANGED <<clock, admitted, files, queue, manifest, log, rstate, calls, tasks, ck>>

\* catch (error): quarantine when retryCount >= maxRetries, else return 'failed'
RT_Catch ==
    /\ run.op = "recoverAll" /\ run.pc = "rt_catch"
    /\ run' = IF run.retryCount >= recoveryMaxRetries
              THEN [run EXCEPT !.pc = "rt_mark"]
              ELSE [run EXCEPT !.pc = "rt_check",
                               !.result = [status |-> "failed", work_id |-> run.task.work_id]]
    /\ UNCHANGED <<clock, admitted, files, queue, manifest, log, rstate, calls, tasks, ck>>

\* markPermanentFailure: permanentFailures.push(workId), saveRecoveryState
RT_Mark ==
    /\ run.op = "recoverAll" /\ run.pc = "rt_mark"
    /\ rstate' = markPermanentFailure(rstate, run.task.work_id)
    /\ run' = [run EXCEPT !.pc = "rt_remove"]
    /\ UNCHANGED <<clock, admitted, files, queue, manifest, log, calls, tasks, ck>>

\* markPermanentFailure: await this.manifest.remove(workId); return 'permanent_failure'
RT_Remove ==
    /\ run.op = "recoverAll" /\ run.pc = "rt_remove"
    /\ manifest' = removeProcessing(manifest, run.task.work_id)
    /\ run' = [run EXCEPT !.pc = "rt_check",
                          !.result = [status |-> "permanent_failure",
                                      work_id |-> run.task.work_id]]
    /\ UNCHANGED <<clock, admitted, files, queue, log, rstate, calls, tasks, ck>>

----------------------------------------------------------------------------
(* simulate-failure script: a record with two completed stages and a failed one *)

\* processingItem of the script: no errors array, no retries field, retry_count 0
SimulatedRecord(workItem) ==
    [uid |-> workItem.uid,
     work_id |-> workItem.id,
     file_path |-> TestRecovery,
     agent_pipeline |-> <<[name |-> "normalization", status |-> "completed"],
                          [name |-> "keyword-extraction", status |-> "completed"],
                          [name |-> "linking", status |-> "failed"],
                          [name |-> "filing", status |-> "pending"]>>,
     errors |-> Undefined,
     retries |-> Undefined,
     retry_count |-> 0]

\* writeFile(testFilePath), addToQueue(testFilePath), getNext, startProcessing, push
SimulateFailure(now) ==
    /\ AtRest
    /\ LET fs == [p \in DOMAIN files \cup {TestRecovery} |->
                    IF p = TestRecovery THEN "h0" ELSE files[p]]
           q1 == addToQueue(queue, fs, TestRecovery, "unknown", now, admitted + 1)
           workItem == getNext(q1)
       IN /\ q1 # queue => admitted < MaxAdds
          /\ files' = fs
          /\ clock' = now
          /\ admitted' = IF q1 # queue THEN admitted + 1 ELSE admitted
          /\ queue' = startProcessing(q1, workItem.id)
          /\ manifest' = Append(manifest, SimulatedRecord(workItem))
    /\ UNCHANGED <<log, rstate, run, calls, tasks, ck>>

Next ==
    \/ \E filePath \in {InboxA, NoteB}, source \in {"git-commit", "unknown"}, now \in Now :
            AddToQueue(filePath, source, now)
    \/ Exit
    \/ PN_GetNext
    \/ PN_StartProcessing
    \/ PN_ManifestAdd
    \/ EX_StartStage
    \/ \E outcome \in {"completed", "failed"} : EX_Invoke(outcome)
    \/ EX_Completed
    \/ EX_Retry
    \/ EX_Failed
    \/ PN_Complete
    \/ PN_Log
    \/ PN_Catch
    \/ RF_Begin
    \/ RF_Item
    \/ RA_Detect
    \/ RT_Check
    \/ RT_Reset
    \/ RT_Recovered
    \/ RT_Catch
    \/ RT_Mark
    \/ RT_Remove
    \/ \E now \in Now : SimulateFailure(now)

Spec == Init /\ [][Next]_vars

----------------------------------------------------------------------------
(* Overlapping calls on the queue document.  A call runs up to its first     *)
(* await when it is made (load() reads the file at once), and then one       *)
(* stretch per step: FileWatcher.scanAndAdd makes addToQueue calls without   *)
(* awaiting them, and concurrent processNext calls dispatch side by side.    *)

NoCall ==
    [kind |-> "none",       \* addToQueue, processNext (its dispatch) or remove
     pc |-> "done",
     path |-> "null",       \* addToQueue: filePath
     content |-> "null",    \* addToQueue: the file's content when the call was made
     source |-> "null",     \* addToQueue: metadata.source
     hash |-> "null",       \* addToQueue: what calculateHash gave
     doc |-> <<>>,          \* the queue document the call loaded
     id |-> Undefined,      \* remove: workItemId
     nextWork |-> Null,     \* processNext: what getNext returned
     item |-> Null,         \* processNext: what startProcessing returned
     result |-> "none"]

Started(call) == tasks' = Append(tasks, call)

Becomes(t, call) == tasks' = [tasks EXCEPT ![t] = call]

\* addToQueue(filePath, metadata) is called: const queue = await this.load()
Q_CallAdd(filePath, source) ==
    /\ Len(tasks) < MaxTasks
    /\ Started([NoCall EXCEPT !.kind = "addToQueue", !.pc = "check", !.path = filePath,
                              !.content = files[filePath], !.source = source,
                              !.doc = queue])
    /\ UNCHANGED <<clock, admitted, files, queue, manifest, log, rstate, run, calls, ck>>

\* the exists check, existsSync, statSync, await this.calculateHash(absolutePath)
Q_AddCheck(t) ==
    /\ tasks[t].kind = "addToQueue" /\ tasks[t].pc = "check"
    /\ Becomes(t, IF addToQueue(tasks[t].doc, files, tasks[t].path, tasks[t].source, 0, 0)
                        = tasks[t].doc
                  THEN [tasks[t] EXCEPT !.pc = "done", !.result = "null"]
                  ELSE [tasks[t] EXCEPT !.pc = "push", !.hash = files[tasks[t].path]])
    /\ UNCHANGED <<clock, admitted, files, queue, manifest, log, rstate, run, calls, ck>>

\* the item is built and pushed: await this.save(queue); return item.id
Q_AddPush(t, now) ==
    /\ tasks[t].kind = "addToQueue" /\ tasks[t].pc = "push"
    /\ admitted < MaxAdds
    /\ LET saved == Append(tasks[t].doc,
                           NewItem(tasks[t].path, tasks[t].source, now, admitted + 1,
                                   tasks[t].hash))
       IN /\ queue' = saved
          /\ Becomes(t, [tasks[t] EXCEPT !.pc = "done", !.doc = saved, !.result = "id"])
    /\ admitted' = admitted + 1
    /\ clock' = now
    /\ UNCHANGED <<files, manifest, log, rstate, run, calls, ck>>

\* processNext is called: getNext's const queue = await this.load()
Q_CallProcessNext ==
    /\ Len(tasks) < MaxTasks
    /\ Started([NoCall EXCEPT !.kind = "processNext", !.pc = "getNext", !.doc = queue])
    /\ UNCHANGED <<clock, admitted, files, queue, manifest, log, rstate, run, calls, ck>>

\* getNext sorts what it loaded and returns the first item
Q_GetNext(t) ==
    /\ tasks[t].kind = "processNext" /\ tasks[t].pc = "getNext"
    /\ Becomes(t, IF getNext(tasks[t].doc) = Null
                  THEN [tasks[t] EXCEPT !.pc = "done", !.result = "idle"]
                  ELSE [tasks[t] EXCEPT !.pc = "call", !.nextWork = getNext(tasks[t].doc)])
    /\ UNCHANGED <<clock, admitted, files, queue, manifest, log, rstate, run, calls, ck>>

\* startProcessing(nextWork.id) is called: const queue = await this.load()
Q_CallStartProcessing(t) ==
    /\ tasks[t].kind = "processNext" /\ tasks[t].pc = "call"
    /\ Becomes(t, [tasks[t] EXCEPT !.pc = "splice", !.doc = queue])
    /\ UNCHANGED <<clock, admitted, files, queue, manifest, log, rstate, run, calls, ck>>

\* findIndex, splice, await this.save(queue); or the throw when the id is not there
Q_StartProcessing(t) ==
    /\ tasks[t].kind = "processNext" /\ tasks[t].pc = "splice"
    /\ IF IndexOfId(tasks[t].doc, tasks[t].nextWork.id) = 0
       THEN /\ Becomes(t, [tasks[t] EXCEPT !.pc = "done", !.result = "threw"])
            /\ UNCHANGED queue
       ELSE /\ queue' = startProcessing(tasks[t].doc, tasks[t].nextWork.id)
            /\ Becomes(t, [tasks[t] EXCEPT
                            !.pc = "done", !.result = "started",
                            !.doc = startProcessing(tasks[t].doc, tasks[t].nextWork.id),
                            !.item = tasks[t].doc[IndexOfId(tasks[t].doc, tasks[t].nextWork.id)]])
    /\ UNCHANGED <<clock, admitted, files, manifest, log, rstate, run, calls, ck>>

\* remove(workItemId) is called: const queue = await this.load()
Q_CallRemove(workItemId) ==
    /\ Len(tasks) < MaxTasks
    /\ Started([NoCall EXCEPT !.kind = "remove", !.pc = "splice", !.id = workItemId,
                              !.doc = queue])
    /\ UNCHANGED <<clock, admitted, files, queue, manifest, log, rstate, run, calls, ck>>

\* the queue document remove saves
remove(q, workItemId) ==
    IF IndexOfId(q, workItemId) = 0 THEN q ELSE RemoveAt(q, IndexOfId(q, workItemId))

\* findIndex; return false, or splice, await this.save(queue), return true
Q_Remove(t) ==
    /\ tasks[t].kind = "remove" /\ tasks[t].pc = "splice"
    /\ IF IndexOfId(tasks[t].doc, tasks[t].id) = 0
       THEN /\ Becomes(t, [tasks[t] EXCEPT !.pc = "done", !.result = "false"])
            /\ UNCHANGED queue
       ELSE /\ queue' = remove(tasks[t].doc, tasks[t].id)
            /\ Becomes(t, [tasks[t] EXCEPT !.pc = "done", !.result = "true",
                                           !.doc = remove(tasks[t].doc, tasks[t].id)])
    /\ UNCHANGED <<clock, admitted, files, manifest, log, rstate, run, calls, ck>>

\* a file of the vault is edited: new content, new hash
ModifyFile(filePath) ==
    /\ filePath \in DOMAIN files
    /\ files[filePath] = "h0"
    /\ files' = [files EXCEPT ![filePath] = "h1"]
    /\ UNCHANGED <<clock, admitted, queue, manifest, log, rstate, run, calls, tasks, ck>>

NextQueue ==
    \/ \E filePath \in {InboxA, NoteB}, source \in Sources : Q_CallAdd(filePath, source)
    \/ \E t \in 1..Len(tasks) : Q_AddCheck(t)
    \/ \E t \in 1..Len(tasks), now \in Now : Q_AddPush(t, now)
    \/ Q_CallProcessNext
    \/ \E t \in 1..Len(tasks) : Q_GetNext(t)
    \/ \E t \in 1..Len(tasks) : Q_CallStartProcessing(t)
    \/ \E t \in 1..Len(tasks) : Q_StartProcessing(t)
    \/ \E workItemId \in 0..MaxClock : Q_CallRemove(workItemId)
    \/ \E t \in 1..Len(tasks) : Q_Remove(t)
    \/ \E filePath \in {InboxA} : ModifyFile(filePath)

SpecQueue == Init /\ [][NextQueue]_vars

----------------------------------------------------------------------------
(* findLastCheckpoint on its own: every pipeline of up to MaxStages stages   *)
(* in every combination of statuses is handed to it once.                    *)

StageNames == <<"normalization", "keyword-extraction", "linking", "tagging", "filing">>

Statuses == {"pending", "in-progress", "completed", "failed"}

Pipelines ==
    UNION {{[i \in 1..n |-> [name |-> StageNames[i], status |-> st[i]]] :
                st \in [1..n -> Statuses]} : n \in 0..MaxStages}

InitCk ==
    /\ clock = 0
    /\ admitted = 0
    /\ files = [p \in Paths |-> "h0"]
    /\ queue = <<>>
    /\ manifest = <<>>
    /\ log = <<>>
    /\ rstate = EmptyRecoveryState
    /\ run = Idle
    /\ calls = NoCalls
    /\ tasks = <<>>
    /\ ck \in {[NoCk EXCEPT !.pipeline = pipeline] : pipeline \in Pipelines}

\* const checkpoint = this.findLastCheckpoint(task)
CK_Find ==
    /\ ~ck.done
    /\ ck' = [ck EXCEPT !.result = findLastCheckpoint(ck.pipeline), !.done = TRUE]
    /\ UNCHANGED <<clock, admitted, files, queue, manifest, log, rstate, run, calls, tasks>>

NextCk == CK_Find

SpecCk == InitCk /\ [][NextCk]_vars

\* position (0-based) of the last stage in pipeline order that is 'completed'
LastCompletedIndex(pipeline) ==
    (CHOOSE i \in 1..Len(pipeline) :
        /\ pipeline[i].status = "completed"
        /\ \A j \in (i + 1)..Len(pipeline) : pipeline[j].status # "completed") - 1

\* C10: findLastCheckpoint returns as checkpoint the last stage in pipeline
\* order that is 'completed' and resumeFromIndex = that stage's index + 1, and
\* resumeFromIndex = 0 when no stage is completed.
C10_CheckpointAsClaimed ==
    ck.done =>
        IF \E i \in 1..Len(ck.pipeline) : ck.pipeline[i].status = "completed"
        THEN /\ ck.result.checkpoint = ck.pipeline[LastCompletedIndex(ck.pipeline) + 1].name
             /\ ck.result.resumeFromIndex = LastCompletedIndex(ck.pipeline) + 1
        ELSE ck.result.resumeFromIndex = 0

----------------------------------------------------------------------------
(* Properties of dispatch, the pipeline executor and recovery (under Spec)   *)

\* processNext has returned 'completed' or 'failed' for the item it dispatched
ProcessNextReturned == run.op = "processNext" /\ run.pc = "returned"

\* C1: getNext returns null iff the queue is empty, otherwise an item of
\* minimum priority and, among those, the one enqueued earliest; and the item
\* a dequeue (getNext then startProcessing) takes out of the queue is that item,
\* so that repeated dequeues drain the queue in (priority, insertion) order.
C1_DequeueByPriorityThenAge ==
    /\ (getNext(queue) = Null) <=> (queue = <<>>)
    /\ queue # <<>> =>
          \E i \in 1..Len(queue) :
              /\ getNext(queue) = queue[i]
              /\ \A j \in 1..Len(queue) :
                    /\ queue[j].priority >= queue[i].priority
                    /\ queue[j].priority = queue[i].priority =>
                          /\ queue[j].created_at >= queue[i].created_at
                          /\ j >= i
    /\ (run.op = "processNext" /\ run.pc = "pn_add") => run.item = run.nextWork

\* C4: when every stage collaborator of the dispatched item succeeded,
\* processNext reports 'completed', the ledger holds no record of the work id,
\* and the completion log holds exactly one record of it, with all N stages
\* 'completed'.
C4_SuccessIsCompleted ==
    (ProcessNextReturned /\ calls.failures = 0 /\ calls.completed = run.item.required_agents) =>
        /\ run.result.status = "completed"
        /\ \A i \in 1..Len(manifest) : manifest[i].work_id # run.item.id
        /\ Cardinality({i \in 1..Len(log) : log[i].work_id = run.item.id}) = 1
        /\ \A i \in 1..Len(log) :
              log[i].work_id = run.item.id =>
                  /\ Len(log[i].agents_executed) = Len(run.item.required_agents)
                  /\ \A a \in 1..Len(log[i].agents_executed) :
                        log[i].agents_executed[a].status = "completed"

\* C5: when a stage has used up its local retries in processNext, the item's
\* record is still in the ledger once processNext has returned, that stage
\* being 'failed'.
C5_FailedRecordRetained ==
    (ProcessNextReturned /\ calls.failed # <<>>) =>
        \E i \in 1..Len(manifest) :
            /\ manifest[i].uid = run.item.uid
            /\ \E a \in 1..Len(manifest[i].agent_pipeline) :
                  /\ manifest[i].agent_pipeline[a].name = calls.failed[1]
                  /\ manifest[i].agent_pipeline[a].status = "failed"

\* C6: an item whose pipeline failed in processNext is a candidate of the next
\* detection pass of the recovery engine (from where it goes on to completion
\* or to quarantine).
C6_FailedItemIsCandidate ==
    (ProcessNextReturned /\ run.result.status = "failed") =>
        \E i \in 1..Len(detectFailedTasks(manifest)) :
            detectFailedTasks(manifest)[i].uid = run.item.uid

\* C7 as stated: the collaborator of a stage is invoked at most maxRetries
\* times within one run of the pipeline.
C7_AtMostMaxRetriesAttempts == calls.invoked <= maxRetries

\* C7: the collaborator of a stage is invoked at most maxRetries + 1 times
\* within one run of the pipeline (one attempt and maxRetries retries), the
\* count starting afresh with every stage.
C7_AtMostOneAttemptAndMaxRetries == calls.invoked <= maxRetries + 1

\* a stage is marked 'failed' after maxRetries + 1 invocations, an earlier stage
\* of the same run having used retries of its own
C7_Witness ==
    /\ calls.failed # <<>>
    /\ calls.invoked = maxRetries + 1
    /\ Len(calls.completed) >= 1
    /\ calls.failures > maxRetries + 1

\* the record of the ledger that updateAgent(run.item.id, ...) addresses
Addressed == manifest[ProcessingIndex(manifest, run.item.id)]

\* C8: within one run of the pipeline the stages are started in pipeline
\* order, a stage only once the one before it is marked 'completed'; the
\* collaborator invoked is the one of the stage started last; and once a stage
\* is marked 'failed' no later stage is started, the later stages of the record
\* keeping status 'pending'.
C8_StagesInOrder ==
    LET required == run.item.required_agents
        nStarted == Len(calls.started)
    IN /\ nStarted <= Len(required)
       /\ \A i \in 1..nStarted : calls.started[i] = required[i]
       /\ Len(calls.completed) <= nStarted
       /\ nStarted <= Len(calls.completed) + 1
       /\ \A i \in 1..Len(calls.completed) : calls.completed[i] = calls.started[i]
       /\ run.pc \in {"invoke", "settle"} =>
             run.ai = nStarted /\ Len(calls.completed) = nStarted - 1
       /\ calls.invoked > 0 => nStarted > 0
       /\ calls.failed # <<>> =>
             /\ calls.failed = <<calls.started[nStarted]>>
             /\ Len(calls.completed) = nStarted - 1
             /\ run.pc \notin {"stage", "invoke", "settle"}
             /\ ProcessingIndex(manifest, run.item.id) # 0 =>
                   \A k \in (nStarted + 1)..Len(required) :
                       \A a \in 1..Len(Addressed.agent_pipeline) :
                           Addressed.agent_pipeline[a].name = required[k] =>
                               Addressed.agent_pipeline[a].status = "pending"

\* C9: a stage of a ledger record that is 'completed' or 'skipped' keeps that
\* status whatever dispatch, retryFailed or retryTask do, and a recovery run
\* starts only stages at an index >= the checkpoint's resumeFromIndex.
C9_CompletedStagesNotReentered ==
    /\ [][\A i \in 1..Len(manifest) :
            Len(manifest') = Len(manifest) =>
                \A a \in 1..Len(manifest[i].agent_pipeline) :
                    manifest[i].agent_pipeline[a].status \in {"completed", "skipped"} =>
                        manifest'[i].agent_pipeline[a].status = manifest[i].agent_pipeline[a].status]_vars
    /\ [](run.op = "recoverAll" =>
            \A i \in 1..Len(calls.started) :
                AgentIndex(run.task.agent_pipeline, calls.started[i]) - 1
                    >= run.ckpt.resumeFromIndex)

----------------------------------------------------------------------------
(* Properties of the queue under overlapping calls (under SpecQueue)         *)

\* C2: no two items of the queue document share a file path, whatever the
\* interleaving of addToQueue, startProcessing and remove calls and whether or
\* not the file's content changed in between; an addToQueue call returns null
\* when the document it loaded has an item for the path, and then the queue
\* document is as it was.
C2_NoDuplicatePaths ==
    /\ [](\A i, j \in 1..Len(queue) : i < j => queue[i].path # queue[j].path)
    /\ [](\A t \in 1..Len(tasks) :
            /\ (tasks[t].kind = "addToQueue" /\ tasks[t].result = "null") =>
                  \E i \in 1..Len(tasks[t].doc) : tasks[t].doc[i].path = tasks[t].path
            /\ (tasks[t].kind = "addToQueue" /\ tasks[t].pc = "push") =>
                  \A i \in 1..Len(tasks[t].doc) : tasks[t].doc[i].path # tasks[t].path)
    /\ [][\A t \in 1..Len(tasks) :
            (tasks[t].result # "null" /\ tasks'[t].result = "null") => queue' = queue]_vars

\* an addToQueue call returned null for a file that is queued with its former
\* content, the file having been edited since
C2_Witness ==
    \E t \in 1..Len(tasks) :
        /\ tasks[t].kind = "addToQueue"
        /\ tasks[t].result = "null"
        /\ tasks[t].content = "h1"
        /\ \E i \in 1..Len(queue) :
              queue[i].path = tasks[t].path /\ queue[i].hash = "h0"

\* C3: no two processNext calls in flight hold the same item from getNext.
C3_DequeueIsAtomic ==
    \A t1, t2 \in 1..Len(tasks) :
        (/\ t1 # t2
         /\ tasks[t1].kind = "processNext" /\ tasks[t2].kind = "processNext"
         /\ tasks[t1].nextWork # Null /\ tasks[t2].nextWork # Null
         /\ tasks[t1].result \in {"none", "started"}
         /\ tasks[t2].result \in {"none", "started"})
        => tasks[t1].nextWork.uid # tasks[t2].nextWork.uid

----------------------------------------------------------------------------
(* Properties of the recovery engine (under Spec)                            *)

\* retryTask has returned 'failed' for the task of the result: the recovery run
\* threw and the item was not quarantined
RecoveryFailedAgain ==
    run.op = "recoverAll" /\ run.pc = "rt_check" /\ run.result.status = "failed"

\* C11: for an item whose recovery runs fail, every recoverAll pass adds
\* exactly 1 to retries[work_id] (so an item that failed again is a candidate
\* of the next pass), and the item enters permanentFailures and leaves the
\* ledger in the pass in which the counter reaches maxRetries, not before.
C11_EveryPassCountsUntilQuarantine ==
    /\ [](RecoveryFailedAgain =>
            \E i \in 1..Len(detectFailedTasks(manifest)) :
                detectFailedTasks(manifest)[i].work_id = run.result.work_id)
    /\ [][\A w \in DOMAIN rstate'.retries :
            getRetryCount(rstate', w) # getRetryCount(rstate, w) =>
                getRetryCount(rstate', w) = getRetryCount(rstate, w) + 1]_vars
    /\ [][\A w \in Range(rstate'.permanentFailures) \ Range(rstate.permanentFailures) :
            getRetryCount(rstate, w) = recoveryMaxRetries]_vars
    /\ []((run.op = "recoverAll" /\ run.pc = "rt_check"
              /\ run.result.status = "permanent_failure") =>
            \A i \in 1..Len(manifest) : manifest[i].work_id # run.result.work_id)

\* C12: retries[work_id] never exceeds maxRetries for any work id recorded in
\* the recovery state, and a counter that equals maxRetries is not incremented.
C12_RetriesWithinLimit ==
    /\ [](\A w \in DOMAIN rstate.retries : rstate.retries[w] <= recoveryMaxRetries)
    /\ [][\A w \in DOMAIN rstate.retries :
            rstate.retries[w] = recoveryMaxRetries =>
                getRetryCount(rstate', w) = recoveryMaxRetries]_vars

\* retryTask met a counter at maxRetries at its threshold check and went on to
\* quarantine without running the pipeline (the first task of its pass)
C12_Witness ==
    /\ run.op = "recoverAll" /\ run.pc = "rt_mark"
    /\ run.item = Null
    /\ getRetryCount(rstate, run.task.work_id) = recoveryMaxRetries

\* C13: once a work id is in permanentFailures (and markPermanentFailure has
\* returned), the ledger holds no record of that id, so that no later
\* detection pass has a candidate of that id, and the recovery engine runs no
\* stage of that item any more.
C13_QuarantineIsFinal ==
    /\ run.pc # "rt_remove" =>
          \A w \in Range(rstate.permanentFailures) :
              /\ \A i \in 1..Len(manifest) : manifest[i].work_id # w
              /\ \A i \in 1..Len(detectFailedTasks(manifest)) :
                    detectFailedTasks(manifest)[i].work_id # w
    /\ (run.op = "recoverAll" /\ run.pc \in {"rt_reset", "stage", "invoke", "settle"}) =>
          run.task.work_id \notin Range(rstate.permanentFailures)

\* C14: permanentFailures holds no work id twice, also when
\* markPermanentFailure is called again for an id it holds.
C14_NoDuplicateQuarantine ==
    \A i, j \in 1..Len(rstate.permanentFailures) :
        i # j => rstate.permanentFailures[i] # rstate.permanentFailures[j]

\* markPermanentFailure has run for an id that the previous retryTask of the
\* same pass had quarantined already, and the list holds the id once
C14_Witness ==
    /\ run.op = "recoverAll" /\ run.pc = "rt_remove"
    /\ run.result = [status |-> "permanent_failure", work_id |-> run.task.work_id]
    /\ Cardinality({i \in 1..Len(rstate.permanentFailures) :
                        rstate.permanentFailures[i] = run.task.work_id}) = 1

\* retryTask has returned 'recovered' for the task of the result: the pipeline
\* ran the remaining stages and did not throw
RecoveredNow ==
    run.op = "recoverAll" /\ run.pc = "rt_check" /\ run.result.status = "recovered"

\* C15: when retryTask has run the remaining stages with success, the ledger
\* holds no record of the work id, the completion log holds exactly one record
\* of it, and the recovery state has no retries / lastRetry entry for it.
C15_RecoveredIsCompleted ==
    RecoveredNow =>
        /\ \A i \in 1..Len(manifest) : manifest[i].work_id # run.result.work_id
        /\ Cardinality({i \in 1..Len(log) : log[i].work_id = run.result.work_id}) = 1
        /\ run.result.work_id \notin DOMAIN rstate.retries
        /\ run.result.work_id \notin DOMAIN rstate.lastRetry

\* C16: when the recovery run threw, retryTask does not go on to quarantine the
\* item in the same call, and the record is still in the ledger when it
\* returns; markPermanentFailure is reached from the threshold check only.
C16_NoQuarantineInFailingCall ==
    /\ [][run.pc = "rt_catch" => run'.pc # "rt_mark"]_vars
    /\ [](RecoveryFailedAgain =>
            \E i \in 1..Len(manifest) : manifest[i].work_id = run.result.work_id)

----------------------------------------------------------------------------
(* Properties of the three stores together (under Spec)                      *)

\* the record that manifest.remove(workId) is about to take out of the ledger
\* in processNext's catch block or in markPermanentFailure
Purged ==
    LET workId == IF run.pc = "pn_catch" THEN run.item.id ELSE run.task.work_id
    IN manifest[ProcessingIndex(manifest, workId)]

\* C17: in every state, the states between two store writes included, a
\* record that manifest.complete took out of the ledger has a CompletionRecord;
\* a CompletionRecord is only ever written for such a record; and a record
\* taken out by the failure purge or by quarantine has none.
C17_LoggedIffCompleted ==
    /\ []((run.op = "processNext" /\ run.pc = "pn_log") =>
            \E i \in 1..Len(log) : log[i].work_id = run.task.work_id)
    /\ [][log' # log =>
            /\ run.op = "processNext" /\ run.pc = "pn_log"
            /\ log' = Append(log, CompletedRecord(run.task))]_vars
    /\ [][(run.pc \in {"pn_catch", "rt_remove"} /\ manifest' # manifest) =>
            \A i \in 1..Len(log') : log'[i].uid # Purged.uid]_vars

\* C18: no work id is at once the id of a queued item and the work_id of a
\* ledger record.
C18_QueueAndLedgerDisjoint ==
    \A i \in 1..Len(queue) : \A j \in 1..Len(manifest) :
        queue[i].id # manifest[j].work_id

----------------------------------------------------------------------------
(* ProcessingManifest.updateAgent on its own: one call, for every stage and  *)
(* requested status, on a ledger record of up to MaxUpStages stages in every *)
(* combination of statuses.                                                  *)

MaxUpStages == 2     \* stages of the record handed to updateAgent

\* the statuses updateAgent has a branch for, and 'pending' (the resets)
StageStatuses == {"pending", "in-progress", "completed", "failed", "skipped"}

UpPipelines ==
    UNION {{[i \in 1..n |-> [name |-> StageNames[i], status |-> st[i]]] :
                st \in [1..n -> StageStatuses]} : n \in 1..MaxUpStages}

\* the locals of an updateAgent(workId, agentName, status) call
NoUpdate ==
    [kind |-> "updateAgent",
     pc |-> "loaded",
     id |-> Undefined,         \* workId
     agentName |-> "null",
     status |-> "null",
     doc |-> <<>>,             \* the ledger document the call loaded
     result |-> "none"]        \* threw, or saved

InitUp ==
    /\ clock = 0
    /\ admitted = 0
    /\ files = [p \in Paths |-> "h0"]
    /\ queue = <<>>
    /\ manifest \in {<<[NewProcessing(NewItem(NoteB, "unknown", 0, 1, "h0"))
                            EXCEPT !.agent_pipeline = pipeline]>> : pipeline \in UpPipelines}
    /\ log = <<>>
    /\ rstate = EmptyRecoveryState
    /\ run = Idle
    /\ calls = NoCalls
    /\ tasks = <<>>
    /\ ck = NoCk

\* updateAgent(workId, agentName, status) is called: const manifest = await this.load()
UA_Call(workId, agentName, status) ==
    /\ tasks = <<>>
    /\ Started([NoUpdate EXCEPT !.id = workId, !.agentName = agentName, !.status = status,
                                !.doc = manifest])
    /\ UNCHANGED <<clock, admitted, files, queue, manifest, log, rstate, run, calls, ck>>

\* find the record and the agent (or throw), agent.status = status, await this.save(manifest)
UA_Save(t) ==
    /\ tasks[t].kind = "updateAgent" /\ tasks[t].pc = "loaded"
    /\ IF updateAgentThrows(tasks[t].doc, tasks[t].id, tasks[t].agentName, tasks[t].status)
       THEN /\ Becomes(t, [tasks[t] EXCEPT !.pc = "done", !.result = "threw"])
            /\ UNCHANGED manifest
       ELSE /\ manifest' = updateAgent(tasks[t].doc, tasks[t].id, tasks[t].agentName,
                                       tasks[t].status)
            /\ Becomes(t, [tasks[t] EXCEPT !.pc = "done", !.result = "saved"])
    /\ UNCHANGED <<clock, admitted, files, queue, log, rstate, run, calls, ck>>

NextUp ==
    \/ \E workId \in {0, 1}, a \in 1..(MaxUpStages + 1), status \in StageStatuses :
            UA_Call(workId, StageNames[a], status)
    \/ \E t \in 1..Len(tasks) : UA_Save(t)

SpecUp == InitUp /\ [][NextUp]_vars

\* the status the stage called agentName has in record workId of document m
\* ('none' when there is no such record or stage)
StatusIn(m, workId, agentName) ==
    IF ProcessingIndex(m, workId) = 0 THEN "none"
    ELSE IF AgentIndex(m[ProcessingIndex(m, workId)].agent_pipeline, agentName) = 0 THEN "none"
    ELSE m[ProcessingIndex(m, workId)].agent_pipeline[
            AgentIndex(m[ProcessingIndex(m, workId)].agent_pipeline, agentName)].status

\* C19: an updateAgent call that asks for 'in-progress' on a stage whose status
\* is 'completed', 'failed' or 'skipped' is rejected with an error and leaves
\* the ledger document as it was.
C19_InvalidTransitionRejected ==
    \A t \in 1..Len(tasks) :
        (/\ tasks[t].kind = "updateAgent" /\ tasks[t].pc = "done"
         /\ tasks[t].status = "in-progress"
         /\ StatusIn(tasks[t].doc, tasks[t].id, tasks[t].agentName)
                \in {"completed", "failed", "skipped"})
        => (tasks[t].result = "threw" /\ manifest = tasks[t].doc)

----------------------------------------------------------------------------
(* Parallel workers: processNext calls running side by side, as               *)
(* BatchProcessor.processParallel starts them (and as separate commands on    *)
(* the same vault do).  Every method of a store loads the document when it is *)
(* called and saves it in a later stretch.  The queue is filled before the    *)
(* first worker starts, with ids that are pairwise distinct.                  *)

MaxWorkers == 2      \* processNext calls side by side
MaxQueued == 2       \* items admitted before the workers start

\* the locals of a processNext call from manifest.add on
NoWorker ==
    [kind |-> "worker",
     pc |-> "add",
     item |-> Null,          \* workItem, what startProcessing returned
     ai |-> 0,               \* position in item.required_agents (1-based)
     retries |-> 0,          \* executeAgentPipeline's local retries
     doc |-> <<>>,           \* the document the method in progress loaded
     task |-> NoTask,        \* processingRecord, what manifest.complete returned
     result |-> "none"]      \* what processNext returned

\* the stage the worker is at
StageOf(w) == w.item.required_agents[w.ai]

\* the collaborator whose execute may fail while the workers run
MayFail(w) == w.item.path = NoteB /\ StageOf(w) = "normalization"

\* the catch block of the retry loop has the error: retries++, then
\* incrementRetry or updateAgent(..., 'failed') is called and loads the ledger
Caught(w) ==
    [w EXCEPT !.retries = @ + 1,
              !.doc = manifest,
              !.pc = IF MayRetry(w.retries + 1) THEN "retry" ELSE "failed"]

\* await this.manifest.add(workItem) is called: const manifest = await this.load()
W_CallAdd(t) ==
    /\ tasks[t].kind = "processNext" /\ tasks[t].result = "started"
    /\ Becomes(t, [NoWorker EXCEPT !.item = tasks[t].item, !.doc = manifest])
    /\ UNCHANGED <<clock, admitted, files, queue, manifest, log, rstate, run, calls, ck>>

\* manifest.current_processing.push(processing); await this.save(manifest)
W_Add(t) ==
    /\ tasks[t].kind = "worker" /\ tasks[t].pc = "add"
    /\ manifest' = Append(tasks[t].doc, NewProcessing(tasks[t].item))
    /\ Becomes(t, [tasks[t] EXCEPT !.pc = "stage", !.ai = 1, !.doc = <<>>])
    /\ UNCHANGED <<clock, admitted, files, queue, log, rstate, run, calls, ck>>

\* updateAgent(workItem.id, agentName, 'in-progress') is called
W_CallStartStage(t) ==
    /\ tasks[t].kind = "worker" /\ tasks[t].pc = "stage"
    /\ Becomes(t, [tasks[t] EXCEPT !.pc = "start", !.doc = manifest])
    /\ UNCHANGED <<clock, admitted, files, queue, manifest, log, rstate, run, calls, ck>>

\* updateAgent throws (the pipeline throws), or saves; retries = 0
W_StartStage(t) ==
    /\ tasks[t].kind = "worker" /\ tasks[t].pc = "start"
    /\ IF updateAgentThrows(tasks[t].doc, tasks[t].item.id, StageOf(tasks[t]), "in-progress")
       THEN /\ Becomes(t, [tasks[t] EXCEPT !.pc = "catch", !.doc = <<>>])
            /\ UNCHANGED manifest
       ELSE /\ manifest' = updateAgent(tasks[t].doc, tasks[t].item.id, StageOf(tasks[t]),
                                       "in-progress")
            /\ Becomes(t, [tasks[t] EXCEPT !.pc = "invoke", !.retries = 0, !.doc = <<>>])
    /\ UNCHANGED <<clock, admitted, files, queue, log, rstate, run, calls, ck>>

\* loadAgent, loadDocumentState, await agent.execute(documentState); then
\* updateAgent(..., 'completed', result) is called, or the catch block runs
W_Invoke(t, outcome) ==
    /\ tasks[t].kind = "worker" /\ tasks[t].pc = "invoke"
    /\ IF loadDocumentStateThrows(tasks[t].item.path)
       THEN /\ outcome = "failed"
            /\ Becomes(t, Caught(tasks[t]))
            /\ UNCHANGED files
       ELSE /\ outcome = "failed" => MayFail(tasks[t])
            /\ Becomes(t, IF outcome = "completed"
                          THEN [tasks[t] EXCEPT !.pc = "completed", !.doc = manifest]
                          ELSE Caught(tasks[t]))
            /\ files' = IF FiledAway(StageOf(tasks[t]), tasks[t].item.path, outcome)
                        THEN [p \in DOMAIN files \ {tasks[t].item.path} |-> files[p]]
                        ELSE files
    /\ UNCHANGED <<clock, admitted, queue, manifest, log, rstate, run, calls, ck>>

\* updateAgent(..., 'completed', result) throws into the catch block, or
\* saves: success = true, and on to the next stage
W_Completed(t) ==
    /\ tasks[t].kind = "worker" /\ tasks[t].pc = "completed"
    /\ IF updateAgentThrows(tasks[t].doc, tasks[t].item.id, StageOf(tasks[t]), "completed")
       THEN /\ Becomes(t, Caught(tasks[t]))
            /\ UNCHANGED manifest
       ELSE /\ manifest' = updateAgent(tasks[t].doc, tasks[t].item.id, StageOf(tasks[t]),
                                       "completed")
            /\ Becomes(t, IF tasks[t].ai < Len(tasks[t].item.required_agents)
                          THEN [tasks[t] EXCEPT !.pc = "stage", !.ai = @ + 1, !.doc = <<>>]
                          ELSE [tasks[t] EXCEPT !.pc = "final", !.doc = <<>>])
    /\ UNCHANGED <<clock, admitted, files, queue, log, rstate, run, calls, ck>>

\* incrementRetry throws out of the catch block, or saves; then the wait and
\* the next turn of the loop
W_Retry(t) ==
    /\ tasks[t].kind = "worker" /\ tasks[t].pc = "retry"
    /\ IF ProcessingIndex(tasks[t].doc, tasks[t].item.id) = 0
       THEN /\ Becomes(t, [tasks[t] EXCEPT !.pc = "catch", !.doc = <<>>])
            /\ UNCHANGED manifest
       ELSE /\ manifest' = incrementRetry(tasks[t].doc, tasks[t].item.id)
            /\ Becomes(t, [tasks[t] EXCEPT !.pc = "invoke", !.doc = <<>>])
    /\ UNCHANGED <<clock, admitted, files, queue, log, rstate, run, calls, ck>>

\* updateAgent(..., 'failed', ...) throws or saves; throw new Error(...)
W_Failed(t) ==
    /\ tasks[t].kind = "worker" /\ tasks[t].pc = "failed"
    /\ IF updateAgentThrows(tasks[t].doc, tasks[t].item.id, StageOf(tasks[t]), "failed")
       THEN UNCHANGED manifest
       ELSE manifest' = updateAgent(tasks[t].doc, tasks[t].item.id, StageOf(tasks[t]),
                                    "failed")
    /\ Becomes(t, [tasks[t] EXCEPT !.pc = "catch", !.doc = <<>>])
    /\ UNCHANGED <<clock, admitted, files, queue, log, rstate, run, calls, ck>>

\* loadDocumentState(workItem.file.path) throws, or manifest.complete is called
W_CallComplete(t) ==
    /\ tasks[t].kind = "worker" /\ tasks[t].pc = "final"
    /\ Becomes(t, IF loadDocumentStateThrows(tasks[t].item.path)
                  THEN [tasks[t] EXCEPT !.pc = "catch"]
                  ELSE [tasks[t] EXCEPT !.pc = "complete", !.doc = manifest])
    /\ UNCHANGED <<clock, admitted, files, queue, manifest, log, rstate, run, calls, ck>>

\* manifest.complete throws, or splices the record out and saves;
\* completionLog.add is called: const log = await this.load()
W_Complete(t) ==
    /\ tasks[t].kind = "worker" /\ tasks[t].pc = "complete"
    /\ IF ProcessingIndex(tasks[t].doc, tasks[t].item.id) = 0
       THEN /\ Becomes(t, [tasks[t] EXCEPT !.pc = "catch", !.doc = <<>>])
            /\ UNCHANGED manifest
       ELSE /\ manifest' = removeProcessing(tasks[t].doc, tasks[t].item.id)
            /\ Becomes(t, [tasks[t] EXCEPT
                            !.pc = "log",
                            !.task = tasks[t].doc[ProcessingIndex(tasks[t].doc, tasks[t].item.id)],
                            !.doc = log])
    /\ UNCHANGED <<clock, admitted, files, queue, log, rstate, run, calls, ck>>

\* log.completed.push(completedRecord); await this.save(log); return 'completed'
W_Log(t) ==
    /\ tasks[t].kind = "worker" /\ tasks[t].pc = "log"
    /\ log' = Append(tasks[t].doc, CompletedRecord(tasks[t].task))
    /\ Becomes(t, [tasks[t] EXCEPT !.pc = "done", !.result = "completed", !.doc = <<>>])
    /\ UNCHANGED <<clock, admitted, files, queue, manifest, rstate, run, calls, ck>>

\* catch (error): await this.manifest.remove(workItem.id) is called
W_CallRemove(t) ==
    /\ tasks[t].kind = "worker" /\ tasks[t].pc = "catch"
    /\ Becomes(t, [tasks[t] EXCEPT !.pc = "remove", !.doc = manifest])
    /\ UNCHANGED <<clock, admitted, files, queue, manifest, log, rstate, run, calls, ck>>

\* remove returns false, or splices and saves; return 'failed'
W_Remove(t) ==
    /\ tasks[t].kind = "worker" /\ tasks[t].pc = "remove"
    /\ IF ProcessingIndex(tasks[t].doc, tasks[t].item.id) = 0
       THEN UNCHANGED manifest
       ELSE manifest' = removeProcessing(tasks[t].doc, tasks[t].item.id)
    /\ Becomes(t, [tasks[t] EXCEPT !.pc = "done", !.result = "failed", !.doc = <<>>])
    /\ UNCHANGED <<clock, admitted, files, queue, log, rstate, run, calls, ck>>

NextLedger ==
    \/ \E filePath \in {InboxA, NoteB} :
            /\ tasks = <<>> /\ admitted < MaxQueued
            /\ AddToQueue(filePath, "unknown", clock + 1)
    \/ Len(tasks) < MaxWorkers /\ Q_CallProcessNext
    \/ \E t \in 1..Len(tasks) : Q_GetNext(t)
    \/ \E t \in 1..Len(tasks) : Q_CallStartProcessing(t)
    \/ \E t \in 1..Len(tasks) : Q_StartProcessing(t)
    \/ \E t \in 1..Len(tasks) : W_CallAdd(t)
    \/ \E t \in 1..Len(tasks) : W_Add(t)
    \/ \E t \in 1..Len(tasks) : W_CallStartStage(t)
    \/ \E t \in 1..Len(tasks) : W_StartStage(t)
    \/ \E t \in 1..Len(tasks), outcome \in {"completed", "failed"} : W_Invoke(t, outcome)
    \/ \E t \in 1..Len(tasks) : W_Completed(t)
    \/ \E t \in 1..Len(tasks) : W_Retry(t)
    \/ \E t \in 1..Len(tasks) : W_Failed(t)
    \/ \E t \in 1..Len(tasks) : W_CallComplete(t)
    \/ \E t \in 1..Len(tasks) : W_Complete(t)
    \/ \E t \in 1..Len(tasks) : W_Log(t)
    \/ \E t \in 1..Len(tasks) : W_CallRemove(t)
    \/ \E t \in 1..Len(tasks) : W_Remove(t)

SpecLedger == Init /\ [][NextLedger]_vars

\* the worker's manifest.add has returned and its own complete / remove has
\* not been called yet
Registered(w) ==
    /\ w.kind = "worker"
    /\ w.pc \in {"stage", "start", "invoke", "completed", "retry", "failed", "final"}

\* C20: with workers side by side, a record the worker added stays in the
\* ledger until the worker's own complete or remove, and the status the worker
\* wrote last for its stage ('in-progress' before the collaborator runs,
\* 'completed' before the next stage) is what the ledger shows, whatever the
\* other workers load and save in between.
C20_NoLostLedgerUpdate ==
    \A t \in 1..Len(tasks) :
        Registered(tasks[t]) =>
            /\ \E i \in 1..Len(manifest) : manifest[i].work_id = tasks[t].item.id
            /\ tasks[t].pc = "invoke" =>
                  StatusIn(manifest, tasks[t].item.id, StageOf(tasks[t])) = "in-progress"
            /\ tasks[t].pc = "final" =>
                  StatusIn(manifest, tasks[t].item.id, StageOf(tasks[t])) = "completed"

----------------------------------------------------------------------------
(* Properties of parallel dispatch (under SpecLedger) *)

\* the worker is inside executeAgentPipeline(workItem)
Executing(w) ==
    /\ w.kind = "worker"
    /\ w.pc \in {"stage", "start", "invoke", "completed", "retry", "failed"}

\* C21: at no time are two pipeline executions running for the same work id:
\* of the processNext calls running side by side, no two are inside
\* executeAgentPipeline with work items of the same id.
C21_OnePipelinePerWorkId ==
    \A t, u \in 1..Len(tasks) :
        (t # u /\ Executing(tasks[t]) /\ Executing(tasks[u]))
            => tasks[t].item.id # tasks[u].item.id

\* C24: the completion log is append-only, also with workers side by side:
\* every step leaves each record of the log where it was and unchanged, and
\* adds at most one record at the end.
C24_LogIsAppendOnly ==
    [][/\ Len(log') \in {Len(log), Len(log) + 1}
       /\ SubSeq(log', 1, Len(log)) = log]_vars

----------------------------------------------------------------------------
(* Properties of detection and of the recovery state (under Spec) *)

\* processing.retries, the counter executeAgentPipeline's catch block advances
\* through incrementRetry (absent on a record that never had it: 0)
LocalRetries(item) == IF item.retries = Undefined THEN 0 ELSE item.retries

\* C25: between commands, detectFailedTasks returns exactly the ledger records
\* that have a stage 'failed' or whose local retry counter, as the pipeline
\* executor advanced it, has reached maxRetries.
C25_DetectsFailedOrExhausted ==
    AtRest =>
        \A i \in 1..Len(manifest) :
            (manifest[i] \in Range(detectFailedTasks(manifest)))
                <=> (hasFailedAgent(manifest[i]) \/ LocalRetries(manifest[i]) >= maxRetries)

\* C26: once a work id is in permanentFailures, the recovery state holds no
\* retries entry and no lastRetry entry for it.
C26_QuarantinedHasNoCounters ==
    \A i \in 1..Len(rstate.permanentFailures) :
        /\ rstate.permanentFailures[i] \notin DOMAIN rstate.retries
        /\ rstate.permanentFailures[i] \notin DOMAIN rstate.lastRetry

\* C28: the items in the queue have pairwise distinct ids, also when two were
\* admitted in the same millisecond, and startProcessing(id) takes out the
\* very item getNext returned.
C28_IdsAreDistinct ==
    /\ [](\A i, j \in 1..Len(queue) : i # j => queue[i].id # queue[j].id)
    /\ [][(run.pc = "pn_start" /\ run'.pc = "pn_add")
            => run'.item.uid = run.nextWork.uid]_vars

----------------------------------------------------------------------------
(* Properties of the stage pipeline of a ledger record (under Spec) *)

\* the stage names of a ledger record, in pipeline order
PipelineNames(item) ==
    [i \in 1..Len(item.agent_pipeline) |-> item.agent_pipeline[i].name]

\* the required_agents of the work item a new ledger record was made for: the
\* item is the one startProcessing returned to processNext, or the one the
\* simulation script got from getNext (queued before, or admitted by the script)
RequiredOf(record) ==
    IF run.pc = "pn_add" THEN run.item.required_agents
    ELSE IF \E i \in 1..Len(queue) : queue[i].uid = record.uid
         THEN (CHOOSE item \in Range(queue) : item.uid = record.uid).required_agents
         ELSE determineAgents(TestRecovery, "unknown")

\* C29: a ledger record is created with exactly the stage names of its work
\* item's required_agents, in that order; no step adds, removes or reorders
\* the stages of a record that stays in the ledger; and the required_agents of
\* a queued item are what determineAgents gave when it was admitted.
C29_PipelineMirrorsRequiredAgents ==
    /\ [][Len(manifest') = Len(manifest) + 1
            => PipelineNames(manifest'[Len(manifest')])
                    = RequiredOf(manifest'[Len(manifest')])]_vars
    /\ [][\A j \in 1..Len(manifest') :
            \/ Len(manifest') = Len(manifest) + 1 /\ j = Len(manifest')
            \/ \E i \in 1..Len(manifest) :
                    /\ manifest[i].uid = manifest'[j].uid
                    /\ manifest[i].work_id = manifest'[j].work_id
                    /\ PipelineNames(manifest[i]) = PipelineNames(manifest'[j])]_vars
    /\ [](\A i \in 1..Len(queue) :
            queue[i].required_agents = determineAgents(queue[i].path, queue[i].source))

----------------------------------------------------------------------------
(* WorkQueueManager.addToQueue on its own: one call, for every path and      *)
(* provenance, on a vault where each file is there or not, and a queue that  *)
(* is empty or holds one item admitted before.                               *)

\* the vaults: every subset of the paths has its files
Vaults == {[p \in present |-> "h0"] : present \in SUBSET Paths}

InitAdd ==
    /\ clock = 0
    /\ files \in Vaults
    /\ queue \in {<<>>} \cup {<<NewItem(p, "unknown", 0, 1, "h0")>> : p \in Paths}
    /\ admitted = Len(queue)
    /\ manifest = <<>>
    /\ log = <<>>
    /\ rstate = EmptyRecoveryState
    /\ run = Idle
    /\ calls = NoCalls
    /\ tasks = <<>>
    /\ ck = NoCk

\* addToQueue(filePath, metadata) is called, the file being there or not:
\* const queue = await this.load()
AQ_Call(filePath, source) ==
    /\ tasks = <<>>
    /\ Started([NoCall EXCEPT !.kind = "addToQueue", !.pc = "check", !.path = filePath,
                              !.content = IF filePath \in DOMAIN files
                                          THEN files[filePath] ELSE "null",
                              !.source = source,
                              !.doc = queue])
    /\ UNCHANGED <<clock, admitted, files, queue, manifest, log, rstate, run, calls, ck>>

NextAdd ==
    \/ \E filePath \in Paths, source \in Sources : AQ_Call(filePath, source)
    \/ \E t \in 1..Len(tasks) : Q_AddCheck(t)
    \/ \E t \in 1..Len(tasks), now \in Now : Q_AddPush(t, now)

SpecAdd == InitAdd /\ [][NextAdd]_vars

\* C27: an addToQueue call for a path that is not queued and whose file does
\* not exist ends with an error outcome, one that is neither the null returned
\* for an already-queued path nor an id, and leaves the queue document as it was.
C27_MissingSourceIsAnError ==
    \A t \in 1..Len(tasks) :
        (/\ tasks[t].kind = "addToQueue" /\ tasks[t].pc = "done"
         /\ tasks[t].path \notin DOMAIN files
         /\ ~AlreadyQueued(tasks[t].doc, tasks[t].path))
        => (tasks[t].result \notin {"null", "id"} /\ queue = tasks[t].doc)

----------------------------------------------------------------------------
(* Restart: the process can stop at any await of a processNext call that has *)
(* registered its item; what is on disk stays, and the commands (process-next, *)
(* recover) are run again afterwards.  Ids are pairwise distinct.            *)

MaxRestartAdds == 2      \* items admitted over a behaviour

\* the process stops; the next command starts from the files
Crash ==
    /\ run.op = "processNext"
    /\ run.pc \in {"stage", "invoke", "settle", "pn_final", "pn_log", "pn_catch"}
    /\ run' = Idle
    /\ calls' = NoCalls
    /\ UNCHANGED <<clock, admitted, files, queue, manifest, log, rstate, tasks, ck>>

\* a step of a command in progress
Continue ==
    \/ Exit
    \/ PN_StartProcessing
    \/ PN_ManifestAdd
    \/ EX_StartStage
    \/ \E outcome \in {"completed", "failed"} : EX_Invoke(outcome)
    \/ EX_Completed
    \/ EX_Retry
    \/ EX_Failed
    \/ PN_Complete
    \/ PN_Log
    \/ PN_Catch
    \/ RT_Check
    \/ RT_Reset
    \/ RT_Recovered
    \/ RT_Catch
    \/ RT_Mark
    \/ RT_Remove

NextRestart ==
    \/ \E filePath \in {InboxA, NoteB} :
            admitted < MaxRestartAdds /\ AddToQueue(filePath, "unknown", clock + 1)
    \/ PN_GetNext
    \/ RA_Detect
    \/ Crash
    \/ Continue

\* a command that is not stopped goes on, and recover is run again and again
SpecRestart ==
    Init /\ [][NextRestart]_vars /\ WF_vars(Continue) /\ SF_vars(RA_Detect)

\* the record is mid-run: no stage 'failed', and a stage 'in-progress' or 'pending'
MidRun(item) ==
    /\ ~hasFailedAgent(item)
    /\ \E i \in 1..Len(item.agent_pipeline) :
            item.agent_pipeline[i].status \in {"in-progress", "pending"}

\* no command is running and the ledger holds a mid-run record for workId
Stranded(workId) ==
    /\ AtRest
    /\ \E i \in 1..Len(manifest) : manifest[i].work_id = workId /\ MidRun(manifest[i])

\* C30: work survives a restart: when the process has stopped with an item's
\* record mid-run in the ledger, the item is eventually completed (it has a
\* CompletionRecord) or quarantined (its id is in permanentFailures).
C30_StrandedWorkIsRecovered ==
    \A workId \in 1..(2 * MaxRestartAdds) :
        Stranded(workId) ~>
            (\/ \E i \in 1..Len(log) : log[i].work_id = workId
             \/ workId \in Range(rstate.permanentFailures))

----------------------------------------------------------------------------
(* BatchProcessor.processAll: the sequential and the parallel loop.  The     *)
(* queue is filled before the batch starts, with ids that are pairwise       *)
(* distinct.  Every item-processing task is a processNext call of its own:   *)
(* getNext and startProcessing as above, then the rest of the call (ledger,  *)
(* pipeline, completion log) in one step.                                    *)

MaxBatchItems == 2       \* items in the queue when the batch starts
maxParallel == 2         \* options.maxParallel of the run

\* the locals of processAll and its statistics
NoBatch ==
    [op |-> "idle",
     pc |-> "idle",
     parallel |-> FALSE,       \* options.parallel
     stopOnError |-> FALSE,    \* options.stopOnError
     doc |-> <<>>,             \* the queue document the loop's getNext loaded
     activeTasks |-> {},       \* processParallel's activeTasks (positions in tasks)
     awaited |-> {},           \* the tasks Promise.race / Promise.all was called with
     processed |-> 0,          \* stats.processed
     completed |-> 0,          \* stats.completed
     failed |-> 0,             \* stats.failed
     skipped |-> 0]            \* stats.skipped

InitBatch ==
    /\ clock = 0
    /\ admitted = 0
    /\ files = [p \in Paths |-> "h0"]
    /\ queue = <<>>
    /\ manifest = <<>>
    /\ log = <<>>
    /\ rstate = EmptyRecoveryState
    /\ run = NoBatch
    /\ calls = NoCalls
    /\ tasks = <<>>
    /\ ck = NoCk

\* processAll(): nothing to do on an empty queue, else the loop of the mode
B_ProcessAll(parallel, stopOnError) ==
    /\ run.pc = "idle"
    /\ run' = [run EXCEPT !.op = "processAll",
                          !.parallel = parallel,
                          !.stopOnError = stopOnError,
                          !.pc = IF queue = <<>> THEN "returned"
                                 ELSE IF parallel THEN "fill" ELSE "seq"]
    /\ UNCHANGED <<clock, admitted, files, queue, manifest, log, rstate, calls, tasks, ck>>

\* a fill condition that lets one task more in than the code's
MayStartAnotherAtLimit(activeTasks) == Cardinality(activeTasks) <= maxParallel

\* while (activeTasks.size < this.options.maxParallel)
MayStartAnother(activeTasks) == Cardinality(activeTasks) < maxParallel

\* processSingleItem(nextWork) is called: it calls mainProcessor.processNext(),
\* whose getNext loads the queue
StartedItem == Started([NoCall EXCEPT !.kind = "processNext", !.pc = "getNext", !.doc = queue])

\* processSequential: getNext, break on null, await this.processSingleItem(nextWork)
B_SeqNext ==
    /\ run.op = "processAll" /\ run.pc = "seq"
    /\ IF getNext(queue) = Null
       THEN /\ run' = [run EXCEPT !.pc = "returned"]
            /\ UNCHANGED tasks
       ELSE /\ run' = [run EXCEPT !.pc = "seq_wait"]
            /\ StartedItem
    /\ UNCHANGED <<clock, admitted, files, queue, manifest, log, rstate, calls, ck>>

\* processSequential after the item and the delay: the stopOnError check
B_SeqAfter ==
    /\ run.op = "processAll" /\ run.pc = "seq_wait"
    /\ tasks[Len(tasks)].pc = "settled"
    /\ run' = [run EXCEPT !.pc = IF run.stopOnError /\ run.failed > 0
                                 THEN "returned" ELSE "seq"]
    /\ UNCHANGED <<clock, admitted, files, queue, manifest, log, rstate, calls, tasks, ck>>

\* processParallel: the inner while's condition, and getNext is called (it loads)
B_CallGetNext ==
    /\ run.op = "processAll" /\ run.pc = "fill"
    /\ run' = IF MayStartAnother(run.activeTasks)
              THEN [run EXCEPT !.pc = "fill_got", !.doc = queue]
              ELSE [run EXCEPT !.pc = "race"]
    /\ UNCHANGED <<clock, admitted, files, queue, manifest, log, rstate, calls, tasks, ck>>

\* getNext returned: break on null, else start the task and activeTasks.add(task)
B_Dispatch ==
    /\ run.op = "processAll" /\ run.pc = "fill_got"
    /\ IF getNext(run.doc) = Null
       THEN /\ run' = [run EXCEPT !.pc = "race", !.doc = <<>>]
            /\ UNCHANGED tasks
       ELSE /\ run' = [run EXCEPT !.pc = "fill", !.doc = <<>>,
                                  !.activeTasks = @ \cup {Len(tasks) + 1}]
            /\ StartedItem
    /\ UNCHANGED <<clock, admitted, files, queue, manifest, log, rstate, calls, ck>>

\* if (activeTasks.size > 0) await Promise.race(activeTasks); else break
B_CallRace ==
    /\ run.op = "processAll" /\ run.pc = "race"
    /\ run' = IF run.activeTasks = {}
              THEN [run EXCEPT !.pc = "returned"]
              ELSE [run EXCEPT !.pc = "racing", !.awaited = run.activeTasks]
    /\ UNCHANGED <<clock, admitted, files, queue, manifest, log, rstate, calls, tasks, ck>>

\* one of the raced tasks is settled: the stopOnError check; on a stop,
\* await Promise.all(activeTasks) is called
B_AfterRace ==
    /\ run.op = "processAll" /\ run.pc = "racing"
    /\ run.awaited \ run.activeTasks # {}
    /\ run' = IF run.stopOnError /\ run.failed > 0
              THEN [run EXCEPT !.pc = "drain", !.awaited = run.activeTasks]
              ELSE [run EXCEPT !.pc = "fill", !.awaited = {}]
    /\ UNCHANGED <<clock, admitted, files, queue, manifest, log, rstate, calls, tasks, ck>>

\* Promise.all(activeTasks) is settled: break
B_Drained ==
    /\ run.op = "processAll" /\ run.pc = "drain"
    /\ run.awaited \cap run.activeTasks = {}
    /\ run' = [run EXCEPT !.pc = "returned", !.awaited = {}]
    /\ UNCHANGED <<clock, admitted, files, queue, manifest, log, rstate, calls, tasks, ck>>

\* the record manifest.complete returns for the item when every stage went through
CompletedProcessing(workItem) ==
    [NewProcessing(workItem) EXCEPT
        !.agent_pipeline = [i \in 1..Len(workItem.required_agents) |->
                                [name |-> workItem.required_agents[i], status |-> "completed"]]]

\* the rest of processNext for the item startProcessing returned: manifest.add
\* and executeAgentPipeline, whose stages all go through or one of which
\* fails for good; then loadDocumentState of the path the item was queued
\* with, manifest.complete and completionLog.add, or the catch block's
\* manifest.remove.  The filing stage has moved an inbox document by then.
B_Run(t, stages) ==
    /\ tasks[t].kind = "processNext" /\ tasks[t].pc = "done" /\ tasks[t].result = "started"
    /\ loadDocumentStateThrows(tasks[t].item.path) => stages = "failed"
    /\ files' = IF FiledAway("filing", tasks[t].item.path, stages)
                THEN [p \in DOMAIN files \ {tasks[t].item.path} |-> files[p]]
                ELSE files
    /\ IF stages = "completed" /\ tasks[t].item.path \in DOMAIN files'
       THEN /\ Becomes(t, [tasks[t] EXCEPT !.result = "completed"])
            /\ log' = Append(log, CompletedRecord(CompletedProcessing(tasks[t].item)))
       ELSE /\ Becomes(t, [tasks[t] EXCEPT !.result = "failed"])
            /\ UNCHANGED log
    /\ UNCHANGED <<clock, admitted, queue, manifest, rstate, run, calls, ck>>

\* processSingleItem after processNext returned or threw: the statistics
B_Settle(t) ==
    /\ tasks[t].kind = "processNext" /\ tasks[t].pc = "done"
    /\ tasks[t].result \in {"completed", "failed", "idle", "threw"}
    /\ Becomes(t, [tasks[t] EXCEPT !.pc = "settled"])
    /\ run' = [run EXCEPT
                !.processed = @ + 1,
                !.completed = IF tasks[t].result = "completed" THEN @ + 1 ELSE @,
                !.failed = IF tasks[t].result \in {"failed", "threw"} THEN @ + 1 ELSE @,
                !.skipped = IF tasks[t].result = "idle" THEN @ + 1 ELSE @]
    /\ UNCHANGED <<clock, admitted, files, queue, manifest, log, rstate, calls, ck>>

\* .finally(() => { activeTasks.delete(task); })
B_Finally(t) ==
    /\ tasks[t].pc = "settled"
    /\ t \in run.activeTasks
    /\ run' = [run EXCEPT !.activeTasks = @ \ {t}]
    /\ UNCHANGED <<clock, admitted, files, queue, manifest, log, rstate, calls, tasks, ck>>

NextBatch ==
    \/ \E filePath \in {InboxA, NoteB} :
            admitted < MaxBatchItems /\ AddToQueue(filePath, "unknown", clock + 1)
    \/ \E parallel \in BOOLEAN, stopOnError \in BOOLEAN : B_ProcessAll(parallel, stopOnError)
    \/ B_SeqNext
    \/ B_SeqAfter
    \/ B_CallGetNext
    \/ B_Dispatch
    \/ B_CallRace
    \/ B_AfterRace
    \/ B_Drained
    \/ \E t \in 1..Len(tasks) : Q_GetNext(t)
    \/ \E t \in 1..Len(tasks) : Q_CallStartProcessing(t)
    \/ \E t \in 1..Len(tasks) : Q_StartProcessing(t)
    \/ \E t \in 1..Len(tasks), stages \in {"completed", "failed"} : B_Run(t, stages)
    \/ \E t \in 1..Len(tasks) : B_Settle(t)
    \/ \E t \in 1..Len(tasks) : B_Finally(t)

SpecBatch == InitBatch /\ [][NextBatch]_vars

\* the item-processing tasks that are active: processSingleItem has been
\* called and has not returned
ActiveItems == {t \in 1..Len(tasks) : tasks[t].kind = "processNext" /\ tasks[t].pc # "settled"}

\* C22: in parallel mode, the number of item-processing tasks active at the
\* same time never exceeds maxParallel.
C22_AtMostMaxParallelActive ==
    run.parallel => Cardinality(ActiveItems) <= maxParallel

\* maxParallel tasks are active and the loop is waiting for one of them
C22_Witness ==
    /\ run.parallel /\ run.pc = "racing"
    /\ Cardinality(ActiveItems) = maxParallel
    /\ queue # <<>>

\* C23: with stopOnError set, once an item has been counted as failed no
\* further item-processing task is started and no further item leaves the
\* queue, in sequential and in parallel mode.
C23_NoDispatchAfterFailure ==
    [][(run.stopOnError /\ run.failed > 0)
        => (Len(tasks') = Len(tasks) /\ queue' = queue)]_vars

----------------------------------------------------------------------------
(* executeAgentPipeline: the wait between two attempts of a stage *)

baseDelay == 1000        \* milliseconds

\* setTimeout(resolve, 1000 * retries), with retries already incremented
backoffDelay(retries) == baseDelay * retries

\* the catch block has incremented retries to k, called incrementRetry and waits
LocalRetry(k) ==
    /\ run.pc = "settle" /\ run'.pc = "invoke"
    /\ run'.retries = k /\ run.retries = k - 1

\* C31: the wait before the k-th local retry of a stage is
\* baseDelay * 2^(k-1): 1, 2 and 4 times the base delay for k = 1, 2, 3.
C31_BackoffDoubles ==
    [][\A k \in 1..maxRetries : LocalRetry(k) => backoffDelay(k) = baseDelay * 2^(k - 1)]_vars

----------------------------------------------------------------------------
(* RecoveryProcessor.cleanup, run as a command between the others *)

\* the state document cleanup saves: the counters of the ids that are neither
\* in the ledger nor quarantined are deleted
cleanup(state, m) ==
    LET activeWorkIds == {m[i].work_id : i \in 1..Len(m)}
        deleted == {workId \in DOMAIN state.retries :
                        /\ workId \notin activeWorkIds
                        /\ workId \notin Range(state.permanentFailures)}
    IN [state EXCEPT
            !.retries = [workId \in DOMAIN state.retries \ deleted |-> state.retries[workId]],
            !.lastRetry = [workId \in DOMAIN state.lastRetry \ deleted |->
                                state.lastRetry[workId]]]

\* the cleanup command: loadRecoveryState, manifest.getAll, the loop,
\* saveRecoveryState, return
RC_Cleanup ==
    /\ AtRest
    /\ rstate' = cleanup(rstate, manifest)
    /\ run' = [Returned("cleaned", Undefined) EXCEPT !.op = "cleanup"]
    /\ UNCHANGED <<clock, admitted, files, queue, manifest, log, calls, tasks, ck>>

NextCleanup ==
    \/ Next
    \/ RC_Cleanup

SpecCleanup == Init /\ [][NextCleanup]_vars

\* the work ids that are in the ledger
LedgerIds == {manifest[i].work_id : i \in 1..Len(manifest)}

\* C32: after cleanup the retries and lastRetry maps have entries only for
\* work ids that are in the ledger, and cleanup leaves permanentFailures as
\* it was.
C32_CleanupPrunesToLedger ==
    /\ []((run.op = "cleanup" /\ run.pc = "returned")
            => /\ DOMAIN rstate.retries \subseteq LedgerIds
               /\ DOMAIN rstate.lastRetry \subseteq LedgerIds)
    /\ [][(AtRest /\ run'.op = "cleanup")
            => rstate'.permanentFailures = rstate.permanentFailures]_vars

----------------------------------------------------------------------------
(* The stores' load() on a file that cannot be read or parsed.  The store    *)
(* files are files of the vault: a file that is there holds JSON text or     *)
(* text JSON.parse rejects, and a document variable is what the text of its  *)
(* file spells out, parseable or not.                                        *)

QueueFile == ".obsidian/state/work-queue.json"
ManifestFile == ".obsidian/state/processing-manifest.json"
LogFile == ".obsidian/state/completion-log.json"
RecoveryFile == ".obsidian/state/recovery-state.json"

StoreFiles == {QueueFile, ManifestFile, LogFile, RecoveryFile}

MaxStoreCalls == 2       \* store operations over a behaviour

\* readFileSync and JSON.parse go through
Readable(fs, storeFile) == storeFile \in DOMAIN fs /\ fs[storeFile] = "json"

\* a load that hands out whatever the file spells out
loadUnparsed(fs, storeFile, doc, default) == doc

\* load(): the parsed document, or the catch block's default document
load(fs, storeFile, doc, default) ==
    IF Readable(fs, storeFile) THEN doc ELSE default

\* save(): writeFileSync(path, JSON.stringify(document))
save(fs, storeFile) ==
    [p \in DOMAIN fs \cup {storeFile} |-> IF p = storeFile THEN "json" ELSE fs[p]]

\* a queued item, a ledger record and a counter that a store file spells out
StoredItem == NewItem(NoteB, "unknown", 0, 1, "h0")
StoredState == [EmptyRecoveryState EXCEPT !.retries = (0 :> 2), !.lastRetry = (0 :> 0)]

InitStore ==
    /\ clock = 0
    /\ admitted = 0
    /\ \E state \in [StoreFiles -> {"json", "garbled", "missing"}] :
            files = [p \in Paths \cup {f \in StoreFiles : state[f] # "missing"} |->
                        IF p \in Paths THEN "h0" ELSE state[p]]
    /\ queue \in {<<>>, <<StoredItem>>}
    /\ manifest \in {<<>>, <<NewProcessing(StoredItem)>>}
    /\ log \in {<<>>, <<CompletedRecord(NewProcessing(StoredItem))>>}
    /\ rstate \in {EmptyRecoveryState, StoredState}
    /\ QueueFile \notin DOMAIN files => queue = <<>>
    /\ ManifestFile \notin DOMAIN files => manifest = <<>>
    /\ LogFile \notin DOMAIN files => log = <<>>
    /\ RecoveryFile \notin DOMAIN files => rstate = EmptyRecoveryState
    /\ run = Idle
    /\ calls = NoCalls
    /\ tasks = <<>>
    /\ ck = NoCk

\* the command returned: what it was and what it gave
StoreReturned(op, status, workId) == [Returned(status, workId) EXCEPT !.op = op]

\* addToQueue(filePath): load, the duplicate check, push, save, return the id
ST_AddToQueue(filePath) ==
    /\ AtRest /\ clock < MaxStoreCalls
    /\ LET doc == load(files, QueueFile, queue, <<>>)
           q1 == addToQueue(doc, files, filePath, "unknown", clock + 1, clock + 2)
       IN IF q1 = doc
          THEN /\ run' = StoreReturned("addToQueue", "null", Undefined)
               /\ UNCHANGED <<queue, files>>
          ELSE /\ queue' = q1
               /\ files' = save(files, QueueFile)
               /\ run' = StoreReturned("addToQueue", "id", clock + 1)
    /\ clock' = clock + 1
    /\ UNCHANGED <<admitted, manifest, log, rstate, calls, tasks, ck>>

\* getNext(): load, sort, return the first item or null
ST_GetNext ==
    /\ AtRest /\ clock < MaxStoreCalls
    /\ LET nextWork == getNext(load(files, QueueFile, queue, <<>>))
       IN run' = IF nextWork = Null
                 THEN StoreReturned("getNext", "null", Undefined)
                 ELSE StoreReturned("getNext", "item", nextWork.id)
    /\ clock' = clock + 1
    /\ UNCHANGED <<admitted, files, queue, manifest, log, rstate, calls, tasks, ck>>

\* manifest.add(workItem): load, push the record, save
ST_ManifestAdd(filePath) ==
    /\ AtRest /\ clock < MaxStoreCalls
    /\ LET workItem == NewItem(filePath, "unknown", clock + 1, clock + 2, "h0")
       IN /\ manifest' = Append(load(files, ManifestFile, manifest, <<>>),
                                NewProcessing(workItem))
          /\ run' = StoreReturned("manifest.add", "added", workItem.id)
    /\ files' = save(files, ManifestFile)
    /\ clock' = clock + 1
    /\ UNCHANGED <<admitted, queue, log, rstate, calls, tasks, ck>>

\* completionLog.add(processingRecord): load, push the record, save
ST_LogAdd(filePath) ==
    /\ AtRest /\ clock < MaxStoreCalls
    /\ LET workItem == NewItem(filePath, "unknown", clock + 1, clock + 2, "h0")
       IN /\ log' = Append(load(files, LogFile, log, <<>>),
                           CompletedRecord(CompletedProcessing(workItem)))
          /\ run' = StoreReturned("completionLog.add", "added", workItem.id)
    /\ files' = save(files, LogFile)
    /\ clock' = clock + 1
    /\ UNCHANGED <<admitted, queue, manifest, rstate, calls, tasks, ck>>

\* incrementRetryCount(workId): loadRecoveryState, count, saveRecoveryState
ST_IncrementRetryCount(workId) ==
    /\ AtRest /\ clock < MaxStoreCalls
    /\ rstate' = incrementRetryCount(load(files, RecoveryFile, rstate, EmptyRecoveryState),
                                     workId, clock + 1)
    /\ run' = StoreReturned("incrementRetryCount", "counted", workId)
    /\ files' = save(files, RecoveryFile)
    /\ clock' = clock + 1
    /\ UNCHANGED <<admitted, queue, manifest, log, calls, tasks, ck>>

NextStore ==
    \/ \E filePath \in {InboxA, NoteB} : ST_AddToQueue(filePath)
    \/ ST_GetNext
    \/ \E filePath \in {InboxA, NoteB} : ST_ManifestAdd(filePath)
    \/ \E filePath \in {InboxA, NoteB} : ST_LogAdd(filePath)
    \/ \E workId \in 0..1 : ST_IncrementRetryCount(workId)
    \/ Exit

SpecStore == InitStore /\ [][NextStore]_vars

\* the command op is called on a store whose file cannot be read or parsed
CalledUnreadable(op, storeFile) ==
    AtRest /\ ~Readable(files, storeFile) /\ run'.op = op

\* C33: when a store's file cannot be read or parsed, load gives the empty
\* default document and the calling operation goes on with it: addToQueue
\* queues the file as the only item, getNext finds nothing, manifest.add and
\* completionLog.add leave a document with the one new record, and
\* incrementRetryCount counts from zero.
C33_UnreadableStoreLoadsEmpty ==
    [][/\ CalledUnreadable("addToQueue", QueueFile)
            => /\ run'.result.status = "id"
               /\ Len(queue') = 1 /\ queue'[1].id = run'.result.work_id
       /\ CalledUnreadable("getNext", QueueFile)
            => run'.result.status = "null"
       /\ CalledUnreadable("manifest.add", ManifestFile)
            => Len(manifest') = 1 /\ manifest'[1].work_id = run'.result.work_id
       /\ CalledUnreadable("completionLog.add", LogFile)
            => Len(log') = 1 /\ log'[1].work_id = run'.result.work_id
       /\ CalledUnreadable("incrementRetryCount", RecoveryFile)
            => /\ rstate'.retries = (run'.result.work_id :> 1)
               /\ rstate'.permanentFailures = <<>>]_vars

\* getNext has returned null on a queue file whose text, which JSON.parse
\* rejects, spells out an item
C33_Witness ==
    /\ run.op = "getNext" /\ run.pc = "returned" /\ run.result.status = "null"
    /\ QueueFile \in DOMAIN files /\ files[QueueFile] = "garbled"
    /\ queue = <<StoredItem>>

----------------------------------------------------------------------------
(* Quarantine and the ledger *)

\* C34: quarantine is atomic with ledger removal: in no reachable state,
\* between the two store updates of markPermanentFailure included, is a work
\* id in permanentFailures while its record is still in the ledger.
C34_QuarantineAtomicWithRemoval ==
    \A i \in 1..Len(manifest) : manifest[i].work_id \notin Range(rstate.permanentFailures)

----------------------------------------------------------------------------
(* Overlapping addToQueue calls, as FileWatcher.scanAndAdd issues them *)

\* the item the addToQueue call pushed and whose id it returned
Pushed(call) == call.doc[Len(call.doc)]

\* C35: no enqueue is lost: once overlapping addToQueue calls for distinct
\* existing paths have all finished, the queue holds an item for every work
\* id a call returned.
C35_NoEnqueueLost ==
    (/\ \A t \in 1..Len(tasks) : tasks[t].kind = "addToQueue" /\ tasks[t].pc = "done"
     /\ \A t, u \in 1..Len(tasks) : t # u => tasks[t].path # tasks[u].path)
        => \A t \in 1..Len(tasks) :
                tasks[t].result = "id"
                    => \E i \in 1..Len(queue) : queue[i].uid = Pushed(tasks[t]).uid

----------------------------------------------------------------------------
(* Where an admitted item is.  Items are told apart by uid, the order of     *)
(* their admission; permanentFailures holds ids only, so an item that is in  *)
(* no document counts as quarantined whenever that list is not empty.        *)

Quiescent == AtRest /\ tasks = <<>>

\* the documents that hold the item admitted as the uid-th
PlacesOf(uid) ==
    {place \in {"queue", "ledger", "log"} :
        \/ place = "queue" /\ \E i \in 1..Len(queue) : queue[i].uid = uid
        \/ place = "ledger" /\ \E i \in 1..Len(manifest) : manifest[i].uid = uid
        \/ place = "log" /\ \E i \in 1..Len(log) : log[i].uid = uid}

\* C36: no admitted work item is lost: in every quiescent state each admitted
\* item is in exactly one of the work queue, the processing ledger, the
\* completion log and permanentFailures.
C36_NoAdmittedItemLost ==
    Quiescent => \A uid \in 1..admitted :
        \/ Cardinality(PlacesOf(uid)) = 1
        \/ PlacesOf(uid) = {} /\ rstate.permanentFailures # <<>>

----------------------------------------------------------------------------
(* The shape of a ledger record's pipeline *)

\* the 'completed' stages are the first ones of the pipeline
CompletedIsPrefix(pipeline) ==
    \A i, j \in 1..Len(pipeline) :
        (i < j /\ pipeline[j].status = "completed") => pipeline[i].status = "completed"

\* the stages that are being run or have failed
Unsettled(pipeline) ==
    {i \in 1..Len(pipeline) : pipeline[i].status \in {"in-progress", "failed"}}

\* C37: in every ledger record the 'completed' stages form a prefix of the
\* pipeline, and at most one stage is 'in-progress' or 'failed', after any
\* sequence of dispatch, retryFailed and recovery runs.
C37_CompletedStagesFormPrefix ==
    \A r \in 1..Len(manifest) :
        /\ CompletedIsPrefix(manifest[r].agent_pipeline)
        /\ Cardinality(Unsettled(manifest[r].agent_pipeline)) <= 1

----------------------------------------------------------------------------
(* startProcessing and the rest of the queue *)

\* after is before without its i-th item, the others in the order they had
WithoutItem(before, i, after) ==
    /\ Len(after) = Len(before) - 1
    /\ \A j \in 1..Len(after) : after[j] = IF j < i THEN before[j] ELSE before[j + 1]

\* the startProcessing call of task t runs on the document it loaded
SplicedBy(t) ==
    /\ t <= Len(tasks)
    /\ tasks[t].kind = "processNext" /\ tasks[t].pc = "splice"
    /\ tasks'[t].pc = "done"

\* C38: startProcessing(id) removes exactly one queued item, one with that
\* id, and leaves every other item in place and in order; when no queued
\* item has the id it raises and leaves the queue document as it was.
C38_StartProcessingFrame ==
    [][\A t \in 1..MaxTasks : SplicedBy(t) =>
            IF \E i \in 1..Len(tasks[t].doc) : tasks[t].doc[i].id = tasks[t].nextWork.id
            THEN /\ tasks'[t].result = "started"
                 /\ tasks'[t].item.id = tasks[t].nextWork.id
                 /\ \E i \in 1..Len(tasks[t].doc) :
                        /\ tasks[t].doc[i] = tasks'[t].item
                        /\ WithoutItem(tasks[t].doc, i, queue')
            ELSE /\ tasks'[t].result = "threw"
                 /\ queue' = queue]_vars

\* a call has taken one of two queued items and the other one is still queued
C38_Witness ==
    \E t \in 1..Len(tasks) :
        /\ tasks[t].kind = "processNext" /\ tasks[t].result = "started"
        /\ Len(queue) = 1 /\ tasks[t].doc = queue
        /\ queue[1].uid # tasks[t].item.uid

----------------------------------------------------------------------------
(* Sequential batch runs: BatchProcessor.processAll in sequential mode and   *)
(* MainProcessor.processAll, on a queue filled beforehand.  Once a run has   *)
(* begun, a step that can be taken is taken.                                 *)

\* MainProcessor.processAll is called: getStats, results
M_ProcessAll ==
    /\ run.pc = "idle"
    /\ run' = [run EXCEPT !.op = "main.processAll", !.pc = "main"]
    /\ UNCHANGED <<clock, admitted, files, queue, manifest, log, rstate, calls, tasks, ck>>

\* while (true): const result = await this.processNext()
M_Next ==
    /\ run.op = "main.processAll" /\ run.pc = "main"
    /\ run' = [run EXCEPT !.pc = "main_wait"]
    /\ StartedItem
    /\ UNCHANGED <<clock, admitted, files, queue, manifest, log, rstate, calls, ck>>

\* processNext returned: break on 'idle', else count, wait and go round again
M_After ==
    /\ run.op = "main.processAll" /\ run.pc = "main_wait"
    /\ tasks[Len(tasks)].pc = "done"
    /\ tasks[Len(tasks)].result \in {"completed", "failed", "idle"}
    /\ Becomes(Len(tasks), [tasks[Len(tasks)] EXCEPT !.pc = "settled"])
    /\ run' = [run EXCEPT
                !.pc = IF tasks[Len(tasks)].result = "idle" THEN "returned" ELSE "main",
                !.completed = IF tasks[Len(tasks)].result = "completed" THEN @ + 1 ELSE @,
                !.failed = IF tasks[Len(tasks)].result = "failed" THEN @ + 1 ELSE @]
    /\ UNCHANGED <<clock, admitted, files, queue, manifest, log, rstate, calls, ck>>

\* the steps of a run that has begun
SequentialRun ==
    \/ B_SeqNext
    \/ B_SeqAfter
    \/ M_Next
    \/ M_After
    \/ \E t \in 1..Len(tasks) : Q_GetNext(t)
    \/ \E t \in 1..Len(tasks) : Q_CallStartProcessing(t)
    \/ \E t \in 1..Len(tasks) : Q_StartProcessing(t)
    \/ \E t \in 1..Len(tasks), stages \in {"completed", "failed"} : B_Run(t, stages)
    \/ \E t \in 1..Len(tasks) : run.op = "processAll" /\ B_Settle(t)

NextSequential ==
    \/ \E filePath \in {InboxA, NoteB} :
            admitted < MaxBatchItems /\ AddToQueue(filePath, "unknown", clock + 1)
    \/ \E stopOnError \in BOOLEAN : B_ProcessAll(FALSE, stopOnError)
    \/ M_ProcessAll
    \/ SequentialRun

SpecSequential == InitBatch /\ [][NextSequential]_vars /\ WF_vars(SequentialRun)

\* the processNext calls that took the item admitted as the uid-th
DispatchesOf(uid) ==
    {t \in 1..Len(tasks) : tasks[t].kind = "processNext" /\ tasks[t].item.uid = uid}

\* the run stopped at the stopOnError test
StoppedOnError == run.stopOnError /\ run.failed > 0

\* C39: with nothing enqueued meanwhile and no store write failing, a
\* sequential batch run terminates; every processNext call of the loop that
\* found an item took exactly one item out of the queue; and when the run has
\* ended otherwise than by stopOnError the queue is empty and every item that
\* was queued has been dispatched exactly once.
C39_SequentialRunDrainsQueue ==
    /\ (run.pc # "idle") ~> (run.pc = "returned")
    /\ [](\A t \in 1..Len(tasks) :
            (tasks[t].nextWork # Null /\ tasks[t].pc \in {"done", "settled"})
                => tasks[t].item # Null)
    /\ [](Len(queue) + Cardinality({uid \in 1..admitted : DispatchesOf(uid) # {}}) = admitted)
    /\ []((run.pc = "returned" /\ ~StoppedOnError)
            => /\ queue = <<>>
               /\ \A uid \in 1..admitted : Cardinality(DispatchesOf(uid)) = 1)

\* a run without stopOnError has ended after a failed item, with every one
\* of the queued items dispatched
C39_Witness ==
    /\ run.pc = "returned" /\ ~run.stopOnError
    /\ run.failed > 0 /\ run.completed > 0
    /\ admitted = MaxBatchItems
    /\ queue = <<>>

----------------------------------------------------------------------------
(* The batch report *)

\* every collaborator that was run for the document went through: the filing
\* stage, the last of every pipeline, has moved an inbox document, and a
\* document outside the inbox has its record in the completion log
PipelineWentThrough(filePath) ==
    IF InInbox(filePath) THEN filePath \notin DOMAIN files
    ELSE \E i \in 1..Len(log) : log[i].file_path = filePath

\* no stage collaborator failed in the run
EveryCollaboratorSucceeded ==
    \A t \in 1..Len(tasks) :
        tasks[t].item # Null => PipelineWentThrough(tasks[t].item.path)

\* C40: in a batch run, sequential or parallel, each queued item gives
\* exactly one outcome, so processed = completed + failed + skipped and
\* processed is at most the number of queued items; and when every stage
\* collaborator succeeds the report has failed = 0 and skipped = 0 (exit
\* code 0).
C40_OneOutcomePerItem ==
    run.op = "processAll" =>
        /\ run.processed = run.completed + run.failed + run.skipped
        /\ run.processed <= admitted
        /\ (run.pc = "returned" /\ EveryCollaboratorSucceeded)
                => run.failed = 0 /\ run.skipped = 0

====
